---- MODULE Spec2Model ----
(***************************************************************************)
(* Model of the AMS2 EDF editor core: the signature-driven scanners        *)
(* (src/core/parser.py), the byte-exact writer (src/core/writer.py) and    *)
(* the entity classes (src/core/models.py).                                *)
(*                                                                         *)
(* A buffer is a sequence of bytes (0..255).  Offsets are 0-based as in    *)
(* the source; the byte at offset i is data[i+1].                          *)
(*                                                                         *)
(* A Python number is a record [t, v]:                                     *)
(*   t = "f": a float equal to the IEEE-754 binary32 value whose bit       *)
(*            pattern, read as a signed 32-bit integer, is v;              *)
(*   t = "i": an integral number of value v (an int, or a float such as    *)
(*            float(rpm_i));                                               *)
(*   t = "none": None;                                                     *)
(*   t = "big": a float beyond the binary32 range (1e39) or an int beyond  *)
(*            32 bits, which struct cannot pack.                           *)
(* The editing session follows src/gui/app.py and src/gui/dialogs.py, the  *)
(* ledger round trip follows tests/test_roundtrip.py.                      *)
(* No buffer or edit of the model holds a signalling NaN.                  *)
(***************************************************************************)
EXTENDS Integers, Sequences, FiniteSets, TLC

VARIABLES
    data,      \* the bytearray being edited
    orig,      \* the buffer as first loaded (B)
    tables,    \* torque tables held by the session (from the last scan)
    boost,     \* boost tables held by the session
    params,    \* parameters held by the session
    pre,       \* the buffer just before the last write
    last,      \* the entity the last write was applied to
    nwrites,   \* number of writes done in the session
    phase,     \* position of the round-trip run
    ledger,    \* round-trip ledger: old and new values of the first scan's entities
    rescan,    \* round trip: the entities scanned from the modified buffer
    sc,        \* position of the torque scanner run step by step
    fa,        \* position of the find_all generator run step by step
    call,      \* the last call of a scanner or helper: function, arguments, result
    ed         \* EDF-File-Editor.py: the modified flag and the last operation of the viewer

vars == <<data, orig, tables, boost, params, pre, last, nwrites, phase, ledger, rescan,
          sc, fa, call, ed>>

----------------------------------------------------------------------------
(* Signatures and struct layouts: src/core/constants.py *)

SIG_0RPM == <<36, 139, 10, 183, 113, 131, 2>>
SIG_ROW_I == <<36, 139, 10, 183, 113, 147, 2>>
SIG_ROW_F == <<36, 139, 10, 183, 113, 163, 2>>
SIG_ENDVAR == <<36, 139, 10, 183, 113, 147, 0>>
SIG_BOOST_0RPM == <<36, 81, 95, 94, 131, 134, 170>>
SIG_BOOST_ROW == <<36, 81, 95, 94, 131, 150, 170>>

ROW0_STRUCT == <<"b", "f", "f">>
ROWI_STRUCT == <<"i", "f", "f">>
ROWF_STRUCT == <<"f", "f", "f">>
ENDVAR_STRUCT == <<"i", "f", "b">>
BOOST0_STRUCT == <<"b", "f", "f", "f", "f", "f">>
BOOSTI_STRUCT == <<"i", "f", "f", "f", "f", "f">>

PARAMS ==
  <<
    [sig |-> <<34, 74, 226, 221, 108>>, name |-> "FuelConsumption", fmt |-> <<"f">>],
    [sig |-> <<34, 210, 162, 146, 50>>, name |-> "FuelEstimate", fmt |-> <<"f">>],
    [sig |-> <<34, 70, 101, 174, 135>>, name |-> "EngineInertia", fmt |-> <<"f">>],
    [sig |-> <<34, 64, 241, 210, 185>>, name |-> "Unknown_EngineFreeRevs", fmt |-> <<"f">>],
    [sig |-> <<36, 77, 35, 151, 84, 162>>, name |-> "IdleRPMLogic", fmt |-> <<"f", "f">>],
    [sig |-> <<36, 77, 35, 151, 84, 82>>, name |-> "IdleRPMLogic", fmt |-> <<"i", "i">>],
    [sig |-> <<34, 33, 152, 153, 174>>, name |-> "LaunchEfficiency", fmt |-> <<"f">>],
    [sig |-> <<36, 121, 2, 182, 189, 162>>, name |-> "LaunchRPMLogic", fmt |-> <<"f", "f">>],
    [sig |-> <<36, 222, 167, 46, 183, 35, 0>>, name |-> "RevLimitRange", fmt |-> <<"f", "f", "b">>],
    [sig |-> <<36, 222, 167, 46, 183, 19, 0>>, name |-> "RevLimitRange", fmt |-> <<"i", "b", "b">>],
    [sig |-> <<32, 165, 92, 193, 196>>, name |-> "RevLimitSetting", fmt |-> <<"b">>],
    [sig |-> <<40, 165, 92, 193, 196>>, name |-> "RevLimitSetting_NoValue", fmt |-> <<>>],
    [sig |-> <<34, 25, 102, 138, 249>>, name |-> "RevLimitLogic", fmt |-> <<"f">>],
    [sig |-> <<36, 131, 21, 47, 32, 3, 0>>, name |-> "EngineFuelMapRange", fmt |-> <<"b", "b", "b">>],
    [sig |-> <<32, 196, 68, 115, 245>>, name |-> "EngineFuelMapSetting", fmt |-> <<"b">>],
    [sig |-> <<36, 191, 132, 124, 241, 163, 0>>, name |-> "EngineBrakingMapRange", fmt |-> <<"f", "f", "b">>],
    [sig |-> <<32, 190, 113, 237, 103>>, name |-> "EngineBrakingMapSetting", fmt |-> <<"b">>],
    [sig |-> <<34, 175, 215, 138, 221>>, name |-> "OptimumOilTemp", fmt |-> <<"f">>],
    [sig |-> <<34, 84, 16, 109, 177>>, name |-> "CombustionHeat", fmt |-> <<"f">>],
    [sig |-> <<34, 246, 227, 159, 217>>, name |-> "EngineSpeedHeat", fmt |-> <<"f">>],
    [sig |-> <<34, 179, 15, 37, 252>>, name |-> "OilMinimumCooling", fmt |-> <<"f">>],
    [sig |-> <<36, 167, 0, 210, 58, 162>>, name |-> "OilWaterHeatTransfer", fmt |-> <<"f", "f">>],
    [sig |-> <<34, 103, 23, 21, 134>>, name |-> "WaterMinimumCooling", fmt |-> <<"f">>],
    [sig |-> <<36, 106, 218, 43, 58, 162>>, name |-> "RadiatorCooling", fmt |-> <<"f", "f">>],
    [sig |-> <<33, 63, 107, 123, 231, 130, 0>>, name |-> "Unknown_Chunk_213F6B", fmt |-> <<"b", "b">>],
    [sig |-> <<32, 109, 71, 193, 178>>, name |-> "Unknown_Chunk_206D47", fmt |-> <<"b">>],
    [sig |-> <<36, 211, 148, 100, 175, 162>>, name |-> "LifetimeEngineRPM", fmt |-> <<"f", "f">>],
    [sig |-> <<36, 211, 148, 100, 175, 82>>, name |-> "LifetimeEngineRPM", fmt |-> <<"i", "i">>],
    [sig |-> <<36, 10, 206, 168, 88, 162>>, name |-> "LifetimeOilTemp", fmt |-> <<"f", "f">>],
    [sig |-> <<36, 5, 113, 199, 25, 162>>, name |-> "Unknown_LMP_RWD_P30_A", fmt |-> <<"f", "f">>],
    [sig |-> <<34, 247, 95, 130, 43>>, name |-> "LifetimeAvg", fmt |-> <<"f">>],
    [sig |-> <<34, 82, 123, 118, 205>>, name |-> "LifetimeVar", fmt |-> <<"f">>],
    [sig |-> <<36, 193, 244, 84, 60, 131, 2>>, name |-> "Unknown_LMP_RWD_P30_B", fmt |-> <<"b", "f", "f">>],
    [sig |-> <<36, 206, 177, 117, 37, 163, 2>>, name |-> "EngineEmission", fmt |-> <<"f", "f", "f">>],
    [sig |-> <<32, 17, 139, 163, 129>>, name |-> "OnboardStarter?", fmt |-> <<"b">>],
    [sig |-> <<38, 175, 0, 179, 186>>, name |-> "EDF_UNKN_005", fmt |-> <<"b">>],
    [sig |-> <<36, 82, 23, 251, 65, 163, 2>>, name |-> "StarterTiming", fmt |-> <<"f", "f", "f">>],
    [sig |-> <<34, 146, 199, 205, 124>>, name |-> "Unknown_Float_3", fmt |-> <<"f">>],
    [sig |-> <<36, 252, 137, 232, 156, 163, 0>>, name |-> "AirRestrictorRange", fmt |-> <<"f", "f", "b">>],
    [sig |-> <<32, 197, 180, 8, 254>>, name |-> "AirRestrictorSetting", fmt |-> <<"b">>],
    [sig |-> <<40, 197, 180, 8, 254>>, name |-> "AirRestrictorSetting_NoValue", fmt |-> <<>>],
    [sig |-> <<32, 43, 62, 211, 64>>, name |-> "Unknown_Byte_2B3ED340", fmt |-> <<"b">>],
    [sig |-> <<34, 186, 101, 221, 96>>, name |-> "Unknown_Float_6e-06", fmt |-> <<"f">>],
    [sig |-> <<34, 129, 146, 23, 224>>, name |-> "Unknown_Float_295", fmt |-> <<"f">>],
    [sig |-> <<36, 99, 35, 58, 20, 163, 0>>, name |-> "WasteGateRange_OLD", fmt |-> <<"f", "f", "b">>],
    [sig |-> <<32, 223, 134, 100, 252>>, name |-> "WasteGateSetting_OLD", fmt |-> <<"b">>],
    [sig |-> <<40, 223, 134, 100, 252>>, name |-> "WasteGateSetting_OLD_NoValue", fmt |-> <<>>],
    [sig |-> <<35, 0, 0, 80, 195>>, name |-> "Unknown_2300005", fmt |-> <<"b", "b">>],
    [sig |-> <<36, 215, 116, 69, 26, 131, 0>>, name |-> "BoostRange", fmt |-> <<"b", "f", "b">>],
    [sig |-> <<32, 202, 47, 209, 52>>, name |-> "BoostSetting", fmt |-> <<"b">>],
    [sig |-> <<40, 202, 47, 209, 52>>, name |-> "BoostSetting_NoValue", fmt |-> <<>>]
  >>

\* ENGINE_LAYOUT_CODES, in table order
ENGINE_LAYOUT_CODES ==
  <<
    [code |-> <<215, 80, 117, 104, 163, 10, 98>>, label |-> "Single Cylinder (8B sequence)"],
    [code |-> <<194, 45, 59>>, label |-> "Flat 4 / 3 Rotor (per SMS)"],
    [code |-> <<215, 45, 59>>, label |-> "Straight 4"],
    [code |-> <<215, 44, 59>>, label |-> "Straight 5"],
    [code |-> <<215, 47, 59>>, label |-> "Straight 6"],
    [code |-> <<194, 47, 59>>, label |-> "Flat 6"],
    [code |-> <<210, 33, 59>>, label |-> "V8 / Flat 8"],
    [code |-> <<210, 40, 9, 47>>, label |-> "V12"],
    [code |-> <<210, 40, 11, 47>>, label |-> "V10"]
  >>

\* detect_engine_layout searches the last 64 bytes
TailLen == 64

----------------------------------------------------------------------------
(* Python numbers *)

F(b) == [t |-> "f", v |-> b]
I(n) == [t |-> "i", v |-> n]
None == [t |-> "none", v |-> 0]

MinInt32 == -2147483647 - 1
MaxInt32 == 2147483647

\* magnitude bits (exponent and mantissa) of a binary32 pattern
FMag(b) == IF b >= 0 THEN b ELSE (b + 2147483647) + 1
FExp(b) == FMag(b) \div 8388608
FMant(b) == FMag(b) % 8388608
IsNaN(b) == FExp(b) = 255 /\ FMant(b) # 0
\* order-preserving key of a non-NaN binary32 value (-0.0 and 0.0 share key 0)
FKey(b) == IF b >= 0 THEN b ELSE 0 - FMag(b)

\* int(x) of a binary32 value: truncation toward zero (|x| < 2^31)
FTruncMag(b) ==
    LET e == FExp(b)
        M == FMant(b) + 8388608
    IN  IF e < 127 THEN 0
        ELSE IF e < 150 THEN M \div (2 ^ (150 - e))
        ELSE IF e < 158 THEN M * (2 ^ (e - 150))
        ELSE MaxInt32
FTrunc(b) == IF b >= 0 THEN FTruncMag(b) ELSE 0 - FTruncMag(b)
\* sign of x - int(x)
FFracSign(b) ==
    LET e == FExp(b)
        M == FMant(b) + 8388608
        nz == IF e = 0 THEN FMant(b) # 0
              ELSE IF e < 127 THEN TRUE
              ELSE IF e < 150 THEN M % (2 ^ (150 - e)) # 0
              ELSE e >= 158
    IN  IF ~nz THEN 0 ELSE IF b >= 0 THEN 1 ELSE -1

\* x < y and x <= y on Python numbers (False when a NaN is involved)
NumLess(x, y) ==
    IF x.t = "i" /\ y.t = "i" THEN x.v < y.v
    ELSE IF x.t = "f" /\ y.t = "f"
         THEN ~IsNaN(x.v) /\ ~IsNaN(y.v) /\ FKey(x.v) < FKey(y.v)
    ELSE IF x.t = "i"
         THEN ~IsNaN(y.v) /\ (x.v < FTrunc(y.v) \/ (x.v = FTrunc(y.v) /\ FFracSign(y.v) > 0))
    ELSE ~IsNaN(x.v) /\ (FTrunc(x.v) < y.v \/ (FTrunc(x.v) = y.v /\ FFracSign(x.v) < 0))
NumEq(x, y) ==
    IF x.t = "i" /\ y.t = "i" THEN x.v = y.v
    ELSE IF x.t = "f" /\ y.t = "f"
         THEN ~IsNaN(x.v) /\ ~IsNaN(y.v) /\ FKey(x.v) = FKey(y.v)
    ELSE IF x.t = "i"
         THEN ~IsNaN(y.v) /\ x.v = FTrunc(y.v) /\ FFracSign(y.v) = 0
    ELSE ~IsNaN(x.v) /\ y.v = FTrunc(x.v) /\ FFracSign(x.v) = 0
NumLeq(x, y) == NumLess(x, y) \/ NumEq(x, y)

----------------------------------------------------------------------------
(* struct: little-endian primitives *)

\* struct.Struct(fmt).size / the byte width of a field format
RECURSIVE StructSize(_)
StructSize(fmt) ==
    IF fmt = <<>> THEN 0
    ELSE (IF Head(fmt) = "b" THEN 1 ELSE 4) + StructSize(Tail(fmt))

\* variant reading the four bytes big-endian
S32_big_endian(d, p) ==
    d[p + 4] + 256 * d[p + 3] + 65536 * d[p + 2]
      + 16777216 * (IF d[p + 1] >= 128 THEN d[p + 1] - 256 ELSE d[p + 1])
\* the 32-bit pattern at offset p, as a signed integer
S32(d, p) ==
    d[p + 1] + 256 * d[p + 2] + 65536 * d[p + 3]
      + 16777216 * (IF d[p + 4] >= 128 THEN d[p + 4] - 256 ELSE d[p + 4])
UnpackF(d, p) == F(S32(d, p))
UnpackI(d, p) == I(S32(d, p))
UnpackB(d, p) == I(d[p + 1])

\* the four bytes of a signed 32-bit pattern
Bytes4(n) ==
    << n % 256, (n \div 256) % 256, (n \div 65536) % 256, (n \div 16777216) % 256 >>

\* floor(log2 a) for 1 <= a < 2^31
RECURSIVE Log2From(_, _)
Log2From(a, k) == IF a < 2 THEN k ELSE Log2From(a \div 2, k + 1)

\* the binary32 pattern of float(n) packed with 'f' (round to nearest, ties to even)
IntToF32(n) ==
    IF n = 0 THEN 0
    ELSE IF n = MinInt32 THEN MinInt32 + 1325400064
    ELSE LET a == IF n < 0 THEN 0 - n ELSE n
             k == Log2From(a, 0)
             q == IF k <= 23 THEN a * (2 ^ (23 - k)) ELSE a \div (2 ^ (k - 23))
             r == IF k <= 23 THEN 0 ELSE a % (2 ^ (k - 23))
             half == IF k <= 23 THEN 1 ELSE 2 ^ (k - 24)
             up == k > 23 /\ (r > half \/ (r = half /\ q % 2 = 1))
             mag == (k + 127) * 8388608 + (q - 8388608) + (IF up THEN 1 ELSE 0)
         IN  IF n < 0 THEN (mag - 2147483647) - 1 ELSE mag

\* a float beyond the binary32 range (such as 1e39), or an integer beyond 32 bits
Big == [t |-> "big", v |-> 0]

\* int(x): ok = FALSE when int() raises (NaN, infinity, None)
IntOf(x) ==
    IF x.t = "i" \/ x.t = "big" THEN [ok |-> TRUE, v |-> x]
    ELSE IF x.t = "none" THEN [ok |-> FALSE, v |-> x]
    ELSE IF FExp(x.v) = 255 THEN [ok |-> FALSE, v |-> x]
    ELSE IF FExp(x.v) >= 158 /\ x.v # MinInt32 + 1325400064 THEN [ok |-> TRUE, v |-> Big]
    ELSE IF FExp(x.v) >= 158 THEN [ok |-> TRUE, v |-> I(MinInt32)]
    ELSE [ok |-> TRUE, v |-> I(FTrunc(x.v))]

\* float(x): ok = FALSE when float() raises (None)
FloatOf(x) == [ok |-> x.t # "none", v |-> x]

\* the bytes struct.pack writes for one field holding x; <<>> when pack raises
PackField(f, x) ==
    IF f = "f" THEN (IF x.t = "f" THEN Bytes4(x.v)
                     ELSE IF x.t = "i" THEN Bytes4(IntToF32(x.v))
                     ELSE <<>>)
    ELSE IF f = "i" THEN (IF x.t = "i" THEN Bytes4(x.v) ELSE <<>>)
    ELSE (IF x.t = "i" /\ x.v >= 0 /\ x.v <= 255 THEN <<x.v>> ELSE <<>>)

\* struct.pack_into: overwrite len(bs) bytes at offset off, nothing else
PackInto(d, off, bs) ==
    [i \in 1..Len(d) |-> IF i > off /\ i <= off + Len(bs) THEN bs[i - off] ELSE d[i]]

----------------------------------------------------------------------------
(* src/core/parser.py *)

\* Op(v): the value v is computed once and handed to Op
Bind(v, Op(_)) == CHOOSE y \in {Op(x) : x \in {v}} : TRUE

\* data[q:q+len(sub)] == sub
MatchAt(d, q, sub) ==
    /\ q + Len(sub) <= Len(d)
    /\ \A k \in 1..Len(sub) : d[q + k] = sub[k]

\* data.find(sub, start)
Find(d, sub, start) ==
    LET hits == {i \in start..(Len(d) - Len(sub)) : MatchAt(d, i, sub)}
    IN  IF hits = {} THEN -1 ELSE CHOOSE i \in hits : \A j \in hits : i <= j

\* variant stepping by one byte after a match
FindStep_overlap(d, sub, start) ==
    LET i == Find(d, sub, start)
    IN  [i |-> i, start |-> IF i = -1 THEN start ELSE i + 1]

\* one resumption of the find_all generator: the offset it yields (-1 when it
\* returns) and the start of the next search
FindStep(d, sub, start) ==
    LET i == Find(d, sub, start)
    IN  [i |-> i, start |-> IF i = -1 THEN start ELSE i + Len(sub)]

RECURSIVE FindAllFrom(_, _, _)
FindAllFrom(d, sub, start) ==
    LET s == FindStep(d, sub, start)
    IN  IF s.i = -1 THEN <<>> ELSE <<s.i>> \o FindAllFrom(d, sub, s.start)

find_all(d, sub) == FindAllFrom(d, sub, 0)

RECURSIVE ReadFrom(_, _, _)
ReadFrom(d, cur, fmt) ==
    IF fmt = <<>> THEN <<>>
    ELSE LET f == Head(fmt)
         IN  IF f = "f" THEN <<UnpackF(d, cur)>> \o ReadFrom(d, cur + 4, Tail(fmt))
             ELSE IF f = "i" THEN <<UnpackI(d, cur)>> \o ReadFrom(d, cur + 4, Tail(fmt))
             ELSE <<UnpackB(d, cur)>> \o ReadFrom(d, cur + 1, Tail(fmt))

\* struct.unpack_from(fmt, data, p): raises struct.error when the buffer does
\* not hold the whole struct at p
unpack_from(d, p, fmt) ==
    IF p < 0 \/ p + StructSize(fmt) > Len(d) THEN [raised |-> TRUE, vals |-> <<>>]
    ELSE [raised |-> FALSE, vals |-> ReadFrom(d, p, fmt)]

\* variant that checks the first field only
FitsFrom_first_field(d, cur, fmt) ==
    IF fmt = <<>> THEN TRUE
    ELSE LET w == IF Head(fmt) = "b" THEN 1 ELSE 4
         IN  Head(fmt) \in {"f", "i", "b"} /\ cur + w <= Len(d)
RECURSIVE FitsFrom(_, _, _)
FitsFrom(d, cur, fmt) ==
    IF fmt = <<>> THEN TRUE
    ELSE LET w == IF Head(fmt) = "b" THEN 1 ELSE 4
         IN  IF Head(fmt) \notin {"f", "i", "b"} THEN FALSE
             ELSE IF cur + w > Len(d) THEN FALSE
             ELSE FitsFrom(d, cur + w, Tail(fmt))

\* variant that returns the offset moved past the format when it fails
read_by_fmt_advancing(d, pos, fmtseq) ==
    IF FitsFrom(d, pos, fmtseq)
    THEN LET u == unpack_from(d, pos, fmtseq)
         IN  [ok |-> TRUE, raised |-> u.raised, vals |-> u.vals,
              pos |-> pos + StructSize(fmtseq)]
    ELSE [ok |-> FALSE, raised |-> FALSE, vals |-> <<>>, pos |-> pos + StructSize(fmtseq)]
\* read_by_fmt: (vals, cur), or (None, pos) when a field does not fit or has
\* an unknown tag; every field is checked before it is unpacked, raised tells
\* that an unpack went past the buffer
read_by_fmt(d, pos, fmtseq) ==
    IF FitsFrom(d, pos, fmtseq)
    THEN LET u == unpack_from(d, pos, fmtseq)
         IN  [ok |-> TRUE, raised |-> u.raised, vals |-> u.vals,
              pos |-> pos + StructSize(fmtseq)]
    ELSE [ok |-> FALSE, raised |-> FALSE, vals |-> <<>>, pos |-> pos]

\* variant without the upper bound
plausible_rpm_unbounded(x) == NumLeq(I(0), x)
plausible_rpm(x) == NumLeq(I(0), x) /\ NumLeq(x, I(25000))
plausible_comp(x) == NumLeq(I(-300), x) /\ NumLeq(x, I(300))
\* variant with the upper bound at 200
plausible_torque_narrow(x) == NumLeq(I(-4000), x) /\ NumLeq(x, I(200))
plausible_torque(x) == NumLeq(I(-4000), x) /\ NumLeq(x, I(10000))
\* 0.5 <= v <= 3.0
plausible_throttle(x) == NumLeq(F(1056964608), x) /\ NumLeq(x, I(3))

TorqueRow(rpm, comp, tq, off, kind) ==
    [rpm |-> rpm, compression |-> comp, torque |-> tq, offset |-> off, kind |-> kind]
BoostRow(rpm, t0, t25, t50, t75, t100, off, kind) ==
    [rpm |-> rpm, t0 |-> t0, t25 |-> t25, t50 |-> t50, t75 |-> t75, t100 |-> t100,
     offset |-> off, kind |-> kind]
Parameter(name, off, vals, fmt) ==
    [name |-> name, offset |-> off, values |-> vals, fmt |-> fmt]
Table(off, rows) == [offset |-> off, rows |-> rows]

\* variant that puts a row before the rows of equal rpm
RECURSIVE InsertByRpm_before_equal(_, _)
InsertByRpm_before_equal(sorted, r) ==
    IF sorted = <<>> THEN <<r>>
    ELSE LET l == sorted[Len(sorted)]
         IN  IF NumLeq(r.rpm, l.rpm)
             THEN InsertByRpm_before_equal(SubSeq(sorted, 1, Len(sorted) - 1), r) \o <<l>>
             ELSE sorted \o <<r>>
\* rows.sort(key=lambda r: r.rpm): stable insertion
RECURSIVE InsertByRpm(_, _)
InsertByRpm(sorted, r) ==
    IF sorted = <<>> THEN <<r>>
    ELSE LET l == sorted[Len(sorted)]
         IN  IF NumLess(r.rpm, l.rpm)
             THEN InsertByRpm(SubSeq(sorted, 1, Len(sorted) - 1), r) \o <<l>>
             ELSE sorted \o <<r>>
RECURSIVE SortFrom(_, _)
SortFrom(acc, rows) ==
    IF rows = <<>> THEN acc ELSE SortFrom(InsertByRpm(acc, Head(rows)), Tail(rows))

\* the EndVar branch of the row loop, with the signature at cursor q ("go"
\* stays TRUE in the variant that reads the row and goes on)
TorqueEndVar_continue(d, q, rows) ==
    LET p == q + Len(SIG_ENDVAR)
    IN  IF p + StructSize(ENDVAR_STRUCT) > Len(d)
        THEN [q |-> p, rows |-> rows, go |-> FALSE, raised |-> FALSE]
        ELSE LET u == unpack_from(d, p, ENDVAR_STRUCT)
                 v == u.vals
             IN  IF u.raised THEN [q |-> p, rows |-> rows, go |-> FALSE, raised |-> TRUE]
                 ELSE [q |-> p + StructSize(ENDVAR_STRUCT),
                       rows |-> Append(rows, TorqueRow(v[1], v[2], None, q, "endvar")),
                       go |-> TRUE, raised |-> FALSE]

\* variant that unpacks without checking that the payload fits
TorqueEndVar_unchecked(d, q, rows) ==
    LET p == q + Len(SIG_ENDVAR)
        u == unpack_from(d, p, ENDVAR_STRUCT)
        v == u.vals
    IN  IF u.raised THEN [q |-> p, rows |-> rows, go |-> FALSE, raised |-> TRUE]
        ELSE [q |-> p + StructSize(ENDVAR_STRUCT),
              rows |-> Append(rows, TorqueRow(v[1], v[2], None, q, "endvar")),
              go |-> FALSE, raised |-> FALSE]
\* variant that reads the row, leaves the cursor on the signature and goes on
TorqueEndVar_stay(d, q, rows) ==
    LET p == q + Len(SIG_ENDVAR)
    IN  IF p + StructSize(ENDVAR_STRUCT) > Len(d)
        THEN [q |-> p, rows |-> rows, go |-> FALSE, raised |-> FALSE]
        ELSE LET u == unpack_from(d, p, ENDVAR_STRUCT)
                 v == u.vals
             IN  IF u.raised THEN [q |-> p, rows |-> rows, go |-> FALSE, raised |-> TRUE]
                 ELSE [q |-> q,
                       rows |-> Append(rows, TorqueRow(v[1], v[2], None, q, "endvar")),
                       go |-> TRUE, raised |-> FALSE]
\* the EndVar branch of the row loop, with the signature at cursor q: read and stop
TorqueEndVar(d, q, rows) ==
    LET p == q + Len(SIG_ENDVAR)
    IN  IF p + StructSize(ENDVAR_STRUCT) > Len(d)
        THEN [q |-> p, rows |-> rows, go |-> FALSE, raised |-> FALSE]
        ELSE LET u == unpack_from(d, p, ENDVAR_STRUCT)
                 v == u.vals
             IN  IF u.raised THEN [q |-> p, rows |-> rows, go |-> FALSE, raised |-> TRUE]
                 ELSE [q |-> p + StructSize(ENDVAR_STRUCT),
                       rows |-> Append(rows, TorqueRow(v[1], v[2], None, q, "endvar")),
                       go |-> FALSE, raised |-> FALSE]

\* variant that drops an out-of-range row and goes on with the row after it
TorqueRowStep_skip_row(d, q, rows) ==
    IF MatchAt(d, q, SIG_0RPM)
    THEN [q |-> q, rows |-> rows, go |-> FALSE, raised |-> FALSE]
    ELSE IF MatchAt(d, q, SIG_ROW_I)
    THEN LET p == q + Len(SIG_ROW_I)
         IN  IF p + StructSize(ROWI_STRUCT) > Len(d)
             THEN [q |-> p, rows |-> rows, go |-> FALSE, raised |-> FALSE]
             ELSE LET u == unpack_from(d, p, ROWI_STRUCT)
                      v == u.vals
                  IN  IF u.raised THEN [q |-> p, rows |-> rows, go |-> FALSE, raised |-> TRUE]
                      ELSE IF ~(plausible_rpm(v[1]) /\ plausible_comp(v[2]) /\ plausible_torque(v[3]))
                      THEN [q |-> p + StructSize(ROWI_STRUCT), rows |-> rows, go |-> TRUE, raised |-> FALSE]
                      ELSE [q |-> p + StructSize(ROWI_STRUCT),
                            rows |-> Append(rows, TorqueRow(v[1], v[2], v[3], q, "row_i")),
                            go |-> TRUE, raised |-> FALSE]
    ELSE IF MatchAt(d, q, SIG_ROW_F)
    THEN LET p == q + Len(SIG_ROW_F)
         IN  IF p + StructSize(ROWF_STRUCT) > Len(d)
             THEN [q |-> p, rows |-> rows, go |-> FALSE, raised |-> FALSE]
             ELSE LET u == unpack_from(d, p, ROWF_STRUCT)
                      v == u.vals
                  IN  IF u.raised THEN [q |-> p, rows |-> rows, go |-> FALSE, raised |-> TRUE]
                      ELSE IF ~(plausible_rpm(v[1]) /\ plausible_comp(v[2]) /\ plausible_torque(v[3]))
                      THEN [q |-> p + StructSize(ROWF_STRUCT), rows |-> rows, go |-> TRUE, raised |-> FALSE]
                      ELSE [q |-> p + StructSize(ROWF_STRUCT),
                            rows |-> Append(rows, TorqueRow(v[1], v[2], v[3], q, "row_f")),
                            go |-> TRUE, raised |-> FALSE]
    ELSE IF MatchAt(d, q, SIG_ENDVAR)
    THEN TorqueEndVar(d, q, rows)
    ELSE [q |-> q, rows |-> rows, go |-> FALSE, raised |-> FALSE]
\* one pass of the row loop of parse_torque_tables at cursor q (q < len(data)):
\* go = TRUE is `continue`, go = FALSE is `break`
TorqueRowStep(d, q, rows) ==
    IF MatchAt(d, q, SIG_0RPM)
    THEN [q |-> q, rows |-> rows, go |-> FALSE, raised |-> FALSE]
    ELSE IF MatchAt(d, q, SIG_ROW_I)
    THEN LET p == q + Len(SIG_ROW_I)
         IN  IF p + StructSize(ROWI_STRUCT) > Len(d)
             THEN [q |-> p, rows |-> rows, go |-> FALSE, raised |-> FALSE]
             ELSE LET u == unpack_from(d, p, ROWI_STRUCT)
                      v == u.vals
                  IN  IF u.raised THEN [q |-> p, rows |-> rows, go |-> FALSE, raised |-> TRUE]
                      ELSE IF ~(plausible_rpm(v[1]) /\ plausible_comp(v[2]) /\ plausible_torque(v[3]))
                      THEN [q |-> p, rows |-> rows, go |-> FALSE, raised |-> FALSE]
                      ELSE [q |-> p + StructSize(ROWI_STRUCT),
                            rows |-> Append(rows, TorqueRow(v[1], v[2], v[3], q, "row_i")),
                            go |-> TRUE, raised |-> FALSE]
    ELSE IF MatchAt(d, q, SIG_ROW_F)
    THEN LET p == q + Len(SIG_ROW_F)
         IN  IF p + StructSize(ROWF_STRUCT) > Len(d)
             THEN [q |-> p, rows |-> rows, go |-> FALSE, raised |-> FALSE]
             ELSE LET u == unpack_from(d, p, ROWF_STRUCT)
                      v == u.vals
                  IN  IF u.raised THEN [q |-> p, rows |-> rows, go |-> FALSE, raised |-> TRUE]
                      ELSE IF ~(plausible_rpm(v[1]) /\ plausible_comp(v[2]) /\ plausible_torque(v[3]))
                      THEN [q |-> p, rows |-> rows, go |-> FALSE, raised |-> FALSE]
                      ELSE [q |-> p + StructSize(ROWF_STRUCT),
                            rows |-> Append(rows, TorqueRow(v[1], v[2], v[3], q, "row_f")),
                            go |-> TRUE, raised |-> FALSE]
    ELSE IF MatchAt(d, q, SIG_ENDVAR)
    THEN TorqueEndVar(d, q, rows)
    ELSE [q |-> q, rows |-> rows, go |-> FALSE, raised |-> FALSE]

\* the while loop of parse_torque_tables from cursor q: the rows it ends
\* with, or raised when an unpack raised
RECURSIVE TorqueRowLoop(_, _, _)
TorqueRowLoop(d, q, rows) ==
    IF q < Len(d)
    THEN Bind(TorqueRowStep(d, q, rows),
              LAMBDA s : IF s.go THEN TorqueRowLoop(d, s.q, s.rows)
                         ELSE [rows |-> s.rows, raised |-> s.raised])
    ELSE [rows |-> rows, raised |-> FALSE]

\* the ZeroRpm candidate at off0: accepted or skipped (`continue`)
TorqueRow0(d, off0) ==
    LET p == off0 + Len(SIG_0RPM)
    IN  IF p + StructSize(ROW0_STRUCT) > Len(d) THEN [ok |-> FALSE, raised |-> FALSE, rows |-> <<>>, q |-> p]
        ELSE LET u == unpack_from(d, p, ROW0_STRUCT)
                 v == u.vals
             IN  IF u.raised THEN [ok |-> FALSE, raised |-> TRUE, rows |-> <<>>, q |-> p]
                 ELSE IF ~(plausible_comp(v[2]) /\ plausible_torque(v[3]))
                 THEN [ok |-> FALSE, raised |-> FALSE, rows |-> <<>>, q |-> p]
                 ELSE [ok |-> TRUE, raised |-> FALSE,
                       rows |-> <<TorqueRow(F(0), v[2], v[3], off0, "0rpm")>>,
                       q |-> p + StructSize(ROW0_STRUCT)]

\* the rows collected for the candidate at off0, in on-disk order
TorqueRowsAt(d, off0) ==
    Bind(TorqueRow0(d, off0),
         LAMBDA r0 : IF r0.ok THEN TorqueRowLoop(d, r0.q, r0.rows)
                     ELSE [rows |-> <<>>, raised |-> r0.raised])

\* variant that leaves the rows in on-disk order
SortByRpm_unsorted(rows) == rows
\* rows.sort(key=lambda r: r.rpm): a stable sort
SortByRpm(rows) == SortFrom(<<>>, rows)

\* variant that keeps a lone ZeroRpm row
TorqueEmit_one(out, off0, rows) ==
    IF Len(rows) >= 1 THEN Append(out, Table(off0, SortByRpm(rows))) ELSE out
\* the end of one candidate: keep the table when it has at least 2 rows
TorqueEmit(out, off0, rows) ==
    IF Len(rows) >= 2 THEN Append(out, Table(off0, SortByRpm(rows))) ELSE out

\* the candidate loop: the tables returned, or raised when the call raised
RECURSIVE TorqueTablesOver(_, _, _)
TorqueTablesOver(d, offs, out) ==
    IF offs = <<>> THEN [tables |-> out, raised |-> FALSE]
    ELSE Bind(TorqueRowsAt(d, Head(offs)),
              LAMBDA r : IF r.raised THEN [tables |-> <<>>, raised |-> TRUE]
                         ELSE TorqueTablesOver(d, Tail(offs),
                                               TorqueEmit(out, Head(offs), r.rows)))

\* the call of parse_torque_tables: what it returns, or raised
TorqueScan(d) == TorqueTablesOver(d, find_all(d, SIG_0RPM), <<>>)

parse_torque_tables(d) == TorqueScan(d).tables

\* variant that forgets t100
AllThrottle_four(v) == \A k \in 2..5 : plausible_throttle(v[k])
AllThrottle(v) == \A k \in 2..6 : plausible_throttle(v[k])

BoostRowStep(d, q, rows) ==
    IF MatchAt(d, q, SIG_BOOST_0RPM)
    THEN [q |-> q, rows |-> rows, go |-> FALSE, raised |-> FALSE]
    ELSE IF MatchAt(d, q, SIG_BOOST_ROW)
    THEN LET p == q + Len(SIG_BOOST_ROW)
         IN  IF p + StructSize(BOOSTI_STRUCT) > Len(d)
             THEN [q |-> p, rows |-> rows, go |-> FALSE, raised |-> FALSE]
             ELSE LET u == unpack_from(d, p, BOOSTI_STRUCT)
                      v == u.vals
                  IN  IF u.raised THEN [q |-> p, rows |-> rows, go |-> FALSE, raised |-> TRUE]
                      ELSE IF ~(NumLeq(I(0), v[1]) /\ NumLeq(v[1], I(25000)))
                      THEN [q |-> p, rows |-> rows, go |-> FALSE, raised |-> FALSE]
                      ELSE IF ~AllThrottle(v)
                      THEN [q |-> p, rows |-> rows, go |-> FALSE, raised |-> FALSE]
                      ELSE [q |-> p + StructSize(BOOSTI_STRUCT),
                            rows |-> Append(rows, BoostRow(v[1], v[2], v[3], v[4], v[5], v[6],
                                                           q, "boost_row")),
                            go |-> TRUE, raised |-> FALSE]
    ELSE [q |-> q, rows |-> rows, go |-> FALSE, raised |-> FALSE]

RECURSIVE BoostRowLoop(_, _, _)
BoostRowLoop(d, q, rows) ==
    IF q < Len(d)
    THEN Bind(BoostRowStep(d, q, rows),
              LAMBDA s : IF s.go THEN BoostRowLoop(d, s.q, s.rows)
                         ELSE [rows |-> s.rows, raised |-> s.raised])
    ELSE [rows |-> rows, raised |-> FALSE]

\* variant that gives the ZeroRpm row the offset of its payload
BoostRow0_payload_offset(d, off0) ==
    LET p == off0 + Len(SIG_BOOST_0RPM)
    IN  IF p + StructSize(BOOST0_STRUCT) > Len(d) THEN [ok |-> FALSE, raised |-> FALSE, rows |-> <<>>, q |-> p]
        ELSE LET u == unpack_from(d, p, BOOST0_STRUCT)
                 v == u.vals
             IN  IF u.raised THEN [ok |-> FALSE, raised |-> TRUE, rows |-> <<>>, q |-> p]
                 ELSE IF ~AllThrottle(v)
                 THEN [ok |-> FALSE, raised |-> FALSE, rows |-> <<>>, q |-> p]
                 ELSE [ok |-> TRUE, raised |-> FALSE,
                       rows |-> <<BoostRow(I(0), v[2], v[3], v[4], v[5], v[6], p, "boost_0rpm")>>,
                       q |-> p + StructSize(BOOST0_STRUCT)]
\* the boost ZeroRpm candidate at off0: accepted or skipped
BoostRow0(d, off0) ==
    LET p == off0 + Len(SIG_BOOST_0RPM)
    IN  IF p + StructSize(BOOST0_STRUCT) > Len(d) THEN [ok |-> FALSE, raised |-> FALSE, rows |-> <<>>, q |-> p]
        ELSE LET u == unpack_from(d, p, BOOST0_STRUCT)
                 v == u.vals
             IN  IF u.raised THEN [ok |-> FALSE, raised |-> TRUE, rows |-> <<>>, q |-> p]
                 ELSE IF ~AllThrottle(v)
                 THEN [ok |-> FALSE, raised |-> FALSE, rows |-> <<>>, q |-> p]
                 ELSE [ok |-> TRUE, raised |-> FALSE,
                       rows |-> <<BoostRow(I(0), v[2], v[3], v[4], v[5], v[6], off0, "boost_0rpm")>>,
                       q |-> p + StructSize(BOOST0_STRUCT)]

BoostRowsAt(d, off0) ==
    Bind(BoostRow0(d, off0),
         LAMBDA r0 : IF r0.ok THEN BoostRowLoop(d, r0.q, r0.rows)
                     ELSE [rows |-> <<>>, raised |-> r0.raised])

BoostEmit(out, off0, rows) ==
    IF Len(rows) >= 2 THEN Append(out, Table(off0, SortByRpm(rows))) ELSE out

RECURSIVE BoostTablesOver(_, _, _)
BoostTablesOver(d, offs, out) ==
    IF offs = <<>> THEN [tables |-> out, raised |-> FALSE]
    ELSE Bind(BoostRowsAt(d, Head(offs)),
              LAMBDA r : IF r.raised THEN [tables |-> <<>>, raised |-> TRUE]
                         ELSE BoostTablesOver(d, Tail(offs),
                                              BoostEmit(out, Head(offs), r.rows)))

\* the call of parse_boost_tables: what it returns, or raised
BoostScan(d) == BoostTablesOver(d, find_all(d, SIG_BOOST_0RPM), <<>>)

parse_boost_tables(d) == BoostScan(d).tables

\* the inner loop of parse_params for one catalog entry
\* the matches of one catalog entry e: the Parameters appended to out, or
\* raised when read_by_fmt raised
RECURSIVE ParamsOver(_, _, _, _)
ParamsOver(d, e, offs, out) ==
    IF offs = <<>> THEN [params |-> out, raised |-> FALSE]
    ELSE LET pos == Head(offs)
             start == pos + Len(e.sig)
             r == read_by_fmt(d, start, e.fmt)
         IN  IF Len(e.fmt) = 0
             THEN ParamsOver(d, e, Tail(offs), Append(out, Parameter(e.name, pos, <<>>, e.fmt)))
             ELSE IF r.raised THEN [params |-> <<>>, raised |-> TRUE]
             ELSE IF ~r.ok THEN ParamsOver(d, e, Tail(offs), out)
             ELSE ParamsOver(d, e, Tail(offs), Append(out, Parameter(e.name, pos, r.vals, e.fmt)))

\* the loop over the catalog from entry k on
RECURSIVE ParamsFrom(_, _, _, _)
ParamsFrom(d, catalog, k, out) ==
    IF k > Len(catalog) THEN [params |-> out, raised |-> FALSE]
    ELSE LET r == ParamsOver(d, catalog[k], find_all(d, catalog[k].sig), out)
         IN  IF r.raised THEN r ELSE ParamsFrom(d, catalog, k + 1, r.params)

\* the call of parse_params: what it returns, or raised
ParamScan(d) == ParamsFrom(d, PARAMS, 1, <<>>)

parse_params(d) == ParamScan(d).params

\* variant of bytes.rfind returning the first occurrence
RFind_first(t, k) ==
    LET occ == {i \in 0..(Len(t) - Len(k)) : MatchAt(t, i, k)}
    IN  IF occ = {} THEN -1 ELSE CHOOSE i \in occ : \A j \in occ : i <= j
\* bytes.rfind: the highest offset where k occurs in t, or -1
RFind(t, k) ==
    LET occ == {i \in 0..(Len(t) - Len(k)) : MatchAt(t, i, k)}
    IN  IF occ = {} THEN -1 ELSE CHOOSE i \in occ : \A j \in occ : j <= i

\* the loop of detect_engine_layout from table entry k on; the offset is <<>>
\* for None and <<n>> for the offset n
RECURSIVE LayoutFrom(_, _, _)
LayoutFrom(d, tail, k) ==
    IF k > Len(ENGINE_LAYOUT_CODES) THEN [label |-> "Unknown/Not found", offset |-> <<>>]
    ELSE LET i == RFind(tail, ENGINE_LAYOUT_CODES[k].code)
         IN  IF i # -1
             THEN [label |-> ENGINE_LAYOUT_CODES[k].label,
                   offset |-> <<Len(d) - Len(tail) + i>>]
             ELSE LayoutFrom(d, tail, k + 1)

detect_engine_layout(d) ==
    LET tail == IF Len(d) > TailLen THEN SubSeq(d, Len(d) - TailLen + 1, Len(d)) ELSE d
    IN  LayoutFrom(d, tail, 1)


----------------------------------------------------------------------------
(* struct.pack_into as CPython runs it, and src/core/writer.py *)

\* the fields are packed in order into the target; the first one that cannot
\* be packed raises and leaves the fields before it written
RECURSIVE PackFields(_, _, _, _)
PackFields(d, cur, fmt, vals) ==
    IF fmt = <<>> THEN [d |-> d, ok |-> TRUE]
    ELSE LET bs == PackField(Head(fmt), Head(vals))
         IN  IF bs = <<>> THEN [d |-> d, ok |-> FALSE]
             ELSE PackFields(PackInto(d, cur, bs), cur + Len(bs), Tail(fmt), Tail(vals))

\* struct.pack_into(fmt, data, off, *vals): the target range is checked, then
\* cleared, then filled field by field
PackIntoStruct(d, off, fmt, vals) ==
    IF off < 0 \/ off + StructSize(fmt) > Len(d) THEN [d |-> d, ok |-> FALSE]
    ELSE PackFields(PackInto(d, off, [k \in 1..StructSize(fmt) |-> 0]), off, fmt, vals)

write_torque_row(d, row) ==
    IF row.kind = "0rpm"
    THEN IF row.torque = None THEN [d |-> d, ok |-> TRUE]
         ELSE LET data_offset == row.offset + Len(SIG_0RPM)
                  b0 == d[data_offset + 1]
              IN  PackIntoStruct(d, data_offset, ROW0_STRUCT, <<I(b0), row.compression, row.torque>>)
    ELSE IF row.kind = "row_i"
    THEN IF row.torque = None THEN [d |-> d, ok |-> TRUE]
         ELSE LET data_offset == row.offset + Len(SIG_ROW_I)
                  rpm == IntOf(row.rpm)
              IN  IF ~rpm.ok THEN [d |-> d, ok |-> FALSE]
                  ELSE PackIntoStruct(d, data_offset, ROWI_STRUCT, <<rpm.v, row.compression, row.torque>>)
    ELSE IF row.kind = "row_f"
    THEN IF row.torque = None THEN [d |-> d, ok |-> TRUE]
         ELSE LET data_offset == row.offset + Len(SIG_ROW_F)
              IN  PackIntoStruct(d, data_offset, ROWF_STRUCT, <<row.rpm, row.compression, row.torque>>)
    ELSE IF row.kind = "endvar"
    THEN LET data_offset == row.offset + Len(SIG_ENDVAR)
             trailing_byte == d[data_offset + StructSize(ENDVAR_STRUCT) - 1 + 1]
             rpm == IntOf(row.rpm)
         IN  IF ~rpm.ok THEN [d |-> d, ok |-> FALSE]
             ELSE PackIntoStruct(d, data_offset, ENDVAR_STRUCT, <<rpm.v, row.compression, I(trailing_byte)>>)
    ELSE [d |-> d, ok |-> TRUE]

write_boost_row(d, row) ==
    IF row.kind = "boost_0rpm"
    THEN LET data_offset == row.offset + Len(SIG_BOOST_0RPM)
             b0 == d[data_offset + 1]
         IN  PackIntoStruct(d, data_offset, BOOST0_STRUCT,
                            <<I(b0), row.t0, row.t25, row.t50, row.t75, row.t100>>)
    ELSE IF row.kind = "boost_row"
    THEN LET data_offset == row.offset + Len(SIG_BOOST_ROW)
             rpm == IntOf(row.rpm)
         IN  IF ~rpm.ok THEN [d |-> d, ok |-> FALSE]
             ELSE PackIntoStruct(d, data_offset, BOOSTI_STRUCT,
                                 <<rpm.v, row.t0, row.t25, row.t50, row.t75, row.t100>>)
    ELSE [d |-> d, ok |-> TRUE]

\* the first catalog entry carrying this name (0 when there is none)
CatalogIndexByName(name) ==
    LET ks == {k \in 1..Len(PARAMS) : PARAMS[k].name = name}
    IN  IF ks = {} THEN 0 ELSE CHOOSE k \in ks : \A j \in ks : k <= j

\* the field loop of write_param from field i on
RECURSIVE WriteParamFields(_, _, _, _, _)
WriteParamFields(d, cur, fmt, vals, i) ==
    IF i > Len(fmt) THEN [d |-> d, ok |-> TRUE]
    ELSE IF i > Len(vals) THEN [d |-> d, ok |-> FALSE]
    ELSE LET f == fmt[i]
             c == IF f = "f" THEN FloatOf(vals[i]) ELSE IntOf(vals[i])
             r == PackIntoStruct(d, cur, <<f>>, <<c.v>>)
         IN  IF f \notin {"f", "i", "b"} THEN WriteParamFields(d, cur, fmt, vals, i + 1)
             ELSE IF ~c.ok THEN [d |-> d, ok |-> FALSE]
             ELSE IF ~r.ok THEN r
             ELSE WriteParamFields(r.d, cur + StructSize(<<f>>), fmt, vals, i + 1)

\* variant that leaves sig_len at 0
write_param_no_sig_len(d, param) ==
    LET k == CatalogIndexByName(param.name)
        fmt == IF param.fmt # <<>> THEN param.fmt
               ELSE IF k = 0 THEN <<>> ELSE PARAMS[k].fmt
    IN  IF fmt = <<>> THEN [d |-> d, ok |-> TRUE]
        ELSE WriteParamFields(d, param.offset, fmt, param.values, 1)

write_param(d, param) ==
    LET k == CatalogIndexByName(param.name)
        sig_len == IF k = 0 THEN 0 ELSE Len(PARAMS[k].sig)
        fmt == IF param.fmt # <<>> THEN param.fmt
               ELSE IF k = 0 THEN <<>> ELSE PARAMS[k].fmt
    IN  IF fmt = <<>> THEN [d |-> d, ok |-> TRUE]
        ELSE WriteParamFields(d, param.offset + sig_len, fmt, param.values, 1)

\* x * 2.0 on a Python float that came from a binary32 field or from a dialog:
\* exact, one exponent step up (a subnormal doubles its magnitude bits); past
\* the largest binary32 magnitude the product is a float 'f' cannot pack
TimesTwo(x) ==
    IF x.t # "f" THEN x
    ELSE IF FExp(x.v) = 255 THEN x
    ELSE IF FExp(x.v) = 254 THEN Big
    ELSE IF FExp(x.v) = 0 THEN F(x.v + FMag(x.v))
    ELSE F(x.v + 8388608)

\* x * factor for factor = 2.0 ** k
RECURSIVE TimesFactor(_, _)
TimesFactor(x, k) == IF k = 0 THEN x ELSE TimesFactor(TimesTwo(x), k - 1)

\* the two loops of scale_torque_tables from row r of table t on: the row
\* object is multiplied, then written; a write that raises ends the call with
\* the row multiplied and the rows after it untouched
RECURSIVE ScaleFrom(_, _, _, _, _)
ScaleFrom(d, tabs, t, r, k) ==
    IF t > Len(tabs) THEN [d |-> d, tables |-> tabs, ok |-> TRUE]
    ELSE IF r > Len(tabs[t].rows) THEN ScaleFrom(d, tabs, t + 1, 1, k)
    ELSE IF tabs[t].rows[r].torque = None THEN ScaleFrom(d, tabs, t, r + 1, k)
    ELSE Bind([tabs[t].rows[r] EXCEPT !.torque = TimesFactor(@, k)],
              LAMBDA row :
                  Bind(write_torque_row(d, row),
                       LAMBDA w :
                           IF ~w.ok
                           THEN [d |-> w.d, tables |-> [tabs EXCEPT ![t].rows[r] = row],
                                 ok |-> FALSE]
                           ELSE ScaleFrom(w.d, [tabs EXCEPT ![t].rows[r] = row], t, r + 1, k)))

\* scale_torque_tables(data, tables, factor) with factor = 2.0 ** k
scale_torque_tables(d, tabs, k) == ScaleFrom(d, tabs, 1, 1, k)

(* src/core/models.py: the size properties *)

\* variant that gives an EndVar row the size of a RowInt row
TorqueRowSize_endvar_as_row_i(row) ==
    IF row.kind = "0rpm" THEN Len(SIG_0RPM) + StructSize(ROW0_STRUCT)
    ELSE IF row.kind \in {"row_i", "endvar"} THEN Len(SIG_ROW_I) + StructSize(ROWI_STRUCT)
    ELSE IF row.kind = "row_f" THEN Len(SIG_ROW_F) + StructSize(ROWF_STRUCT)
    ELSE 0
TorqueRowSize(row) ==
    IF row.kind = "0rpm" THEN Len(SIG_0RPM) + StructSize(ROW0_STRUCT)
    ELSE IF row.kind = "row_i" THEN Len(SIG_ROW_I) + StructSize(ROWI_STRUCT)
    ELSE IF row.kind = "row_f" THEN Len(SIG_ROW_F) + StructSize(ROWF_STRUCT)
    ELSE IF row.kind = "endvar" THEN Len(SIG_ENDVAR) + StructSize(ENDVAR_STRUCT)
    ELSE 0

BoostRowSize(row) ==
    IF row.kind = "boost_0rpm" THEN Len(SIG_BOOST_0RPM) + StructSize(BOOST0_STRUCT)
    ELSE IF row.kind = "boost_row" THEN Len(SIG_BOOST_ROW) + StructSize(BOOSTI_STRUCT)
    ELSE 0

\* TorqueTable.size / BoostTable.size: sum(r.size for r in self.rows)
TableSize(t, boosted) ==
    LET sum[k \in 0..Len(t.rows)] ==
            IF k = 0 THEN 0
            ELSE sum[k - 1] + (IF boosted THEN BoostRowSize(t.rows[k])
                               ELSE TorqueRowSize(t.rows[k]))
    IN  sum[Len(t.rows)]

ParameterSize(p) ==
    LET k == CatalogIndexByName(p.name)
        sig_len == IF k = 0 THEN 0 ELSE Len(PARAMS[k].sig)
        fmt_seq == IF p.fmt # <<>> \/ k = 0 THEN p.fmt ELSE PARAMS[k].fmt
    IN  sig_len + StructSize(fmt_seq)

----------------------------------------------------------------------------
(* The unknown-byte accounting of src/EDF-File-Editor.py. The file carries *)
(* its own copy of the scanners: its rows hold ptr, the offset of the      *)
(* payload (the signature offset for a ZeroRpm row), and its catalog gives *)
(* RevLimitRange with a float the format f b b.                            *)

EditorPARAMS ==
    [k \in 1..Len(PARAMS) |->
        IF PARAMS[k].sig = <<36, 222, 167, 46, 183, 35, 0>>
        THEN [PARAMS[k] EXCEPT !.fmt = <<"f", "b", "b">>]
        ELSE PARAMS[k]]

\* parse_params of the file, over its own catalog
EditorParams(d) == ParamsFrom(d, EditorPARAMS, 1, <<>>).params

\* ptr of a row as the file's scanners store it
EditorPtr(row) ==
    IF row.kind \in {"0rpm", "boost_0rpm"} THEN row.offset
    ELSE IF row.kind \in {"row_i", "row_f", "endvar"} THEN row.offset + Len(SIG_ROW_I)
    ELSE row.offset + Len(SIG_BOOST_ROW)

\* the range appended for one torque row of the table at off
TorqueRowRange(off, row) ==
    LET ptr == EditorPtr(row)
    IN  IF row.kind = "0rpm" THEN <<off, off + Len(SIG_0RPM) + StructSize(ROW0_STRUCT)>>
        ELSE IF row.kind = "row_i"
        THEN <<ptr - Len(SIG_ROW_I), ptr + StructSize(ROWI_STRUCT)>>
        ELSE IF row.kind = "row_f"
        THEN <<ptr - Len(SIG_ROW_F), ptr + StructSize(ROWF_STRUCT)>>
        ELSE <<ptr - Len(SIG_ENDVAR), ptr + StructSize(ENDVAR_STRUCT)>>

BoostRowRange(off, row) ==
    LET ptr == EditorPtr(row)
    IN  IF row.kind = "boost_0rpm"
        THEN <<off, off + Len(SIG_BOOST_0RPM) + StructSize(BOOST0_STRUCT)>>
        ELSE <<ptr - Len(SIG_BOOST_ROW), ptr + StructSize(BOOSTI_STRUCT)>>

\* the range of one parameter: the signature length and the format are those
\* of the first catalog entry with the parameter's name
ParamRange(prm) ==
    LET k == CatalogIndexByName(prm.name)
        sig_len == IF k = 0 THEN 0 ELSE Len(EditorPARAMS[k].sig)
        data_len == IF k = 0 THEN 0 ELSE StructSize(EditorPARAMS[k].fmt)
    IN  <<prm.offset, prm.offset + sig_len + data_len>>

RECURSIVE TableRanges(_, _)
TableRanges(tabs, boosted) ==
    IF tabs = <<>> THEN <<>>
    ELSE LET t == Head(tabs)
         IN  [r \in 1..Len(t.rows) |->
                 IF boosted THEN BoostRowRange(t.offset, t.rows[r])
                 ELSE TorqueRowRange(t.offset, t.rows[r])]
             \o TableRanges(Tail(tabs), boosted)

\* the list `ranges` before it is sorted
EntityRanges(tabs, bst, ps) ==
    TableRanges(tabs, FALSE) \o TableRanges(bst, TRUE) \o [i \in 1..Len(ps) |-> ParamRange(ps[i])]

\* tuple order of two ranges
RangeLess(a, b) == a[1] < b[1] \/ (a[1] = b[1] /\ a[2] < b[2])

RECURSIVE InsertRange(_, _)
InsertRange(sorted, r) ==
    IF sorted = <<>> THEN <<r>>
    ELSE IF RangeLess(r, Head(sorted)) THEN <<r>> \o sorted
    ELSE <<Head(sorted)>> \o InsertRange(Tail(sorted), r)

\* ranges.sort()
RECURSIVE SortRanges(_)
SortRanges(ranges) ==
    IF ranges = <<>> THEN <<>>
    ELSE InsertRange(SortRanges(SubSeq(ranges, 1, Len(ranges) - 1)), ranges[Len(ranges)])

\* variant that takes the end of the later range
MergeStep_last_end(merged, r) ==
    LET m == merged[Len(merged)]
    IN  IF r[1] <= m[2]
        THEN [merged EXCEPT ![Len(merged)] = <<m[1], r[2]>>]
        ELSE Append(merged, r)
\* one pass of the merge loop
MergeStep(merged, r) ==
    LET m == merged[Len(merged)]
    IN  IF r[1] <= m[2]
        THEN [merged EXCEPT ![Len(merged)] = <<m[1], IF m[2] >= r[2] THEN m[2] ELSE r[2]>>]
        ELSE Append(merged, r)

RECURSIVE MergeFrom(_, _)
MergeFrom(merged, rest) ==
    IF rest = <<>> THEN merged ELSE MergeFrom(MergeStep(merged, Head(rest)), Tail(rest))

\* _calculate_known_ranges from the list of ranges on
calculate_known_ranges(ranges) ==
    IF ranges = <<>> THEN <<>>
    ELSE LET sorted == SortRanges(ranges)
         IN  MergeFrom(<<sorted[1]>>, Tail(sorted))

RECURSIVE SumRanges(_)
SumRanges(known_ranges) ==
    IF known_ranges = <<>> THEN 0
    ELSE (Head(known_ranges)[2] - Head(known_ranges)[1]) + SumRanges(Tail(known_ranges))

\* _calculate_unknown_bytes
calculate_unknown_bytes(d, known_ranges) ==
    IF d = <<>> THEN 0 ELSE Len(d) - SumRanges(known_ranges)

----------------------------------------------------------------------------
(* Input buffers: concatenations of row, parameter and filler chunks *)

MaxChunks == 4          \* chunks per buffer handed to a scanner run
MaxSessionChunks == 2   \* chunks per buffer of an editing session
MaxTripChunks == 2      \* chunks per buffer of a round trip
MaxWrites == 2          \* writes per editing session
MaxLen == 5             \* bytes per buffer handed to find_all
MaxNeedle == 2          \* bytes per needle handed to find_all
MaxParamChunks == 2     \* chunks per buffer handed to parse_params
MaxLayoutChunks == 3    \* chunks per buffer handed to detect_engine_layout
MaxBack == 9            \* read_by_fmt is called up to this many bytes before the end
MaxRunChunks == 3       \* chunks per buffer of a scan run to its end

Chunks ==
  <<
    \* 1: ZeroRpm row, byte 0, compression 10.0, torque 100.0
    <<36, 139, 10, 183, 113, 131, 2, 0, 0, 0, 32, 65, 0, 0, 200, 66>>,
    \* 2: ZeroRpm row, byte 7, compression -300.0, torque 10000.0
    <<36, 139, 10, 183, 113, 131, 2, 7, 0, 0, 150, 195, 0, 64, 28, 70>>,
    \* 3: RowInt, rpm 1000, compression 1.0, torque 150.0
    <<36, 139, 10, 183, 113, 147, 2, 232, 3, 0, 0, 0, 0, 128, 63, 0, 0, 22, 67>>,
    \* 4: RowFloat, rpm 2000.5, compression 2.0, torque 200.0
    <<36, 139, 10, 183, 113, 163, 2, 0, 16, 250, 68, 0, 0, 0, 64, 0, 0, 72, 67>>,
    \* 5: EndVar, rpm 30000, compression 1e9, trailing byte 9
    <<36, 139, 10, 183, 113, 147, 0, 48, 117, 0, 0, 40, 107, 110, 78, 9>>,
    \* 6: RowInt, rpm 30000 (out of range), compression 1.0, torque 150.0
    <<36, 139, 10, 183, 113, 147, 2, 48, 117, 0, 0, 0, 0, 128, 63, 0, 0, 22, 67>>,
    \* 7: one filler byte
    <<0>>,
    \* 8: boost ZeroRpm row, byte 0, throttle 1.0 1.2 1.5 1.8 2.0
    <<36, 81, 95, 94, 131, 134, 170, 0, 0, 0, 128, 63, 154, 153, 153, 63, 0, 0, 192, 63,
      102, 102, 230, 63, 0, 0, 0, 64>>,
    \* 9: boost row, rpm 2000, throttle 0.5 1.3 1.6 1.9 3.0
    <<36, 81, 95, 94, 131, 150, 170, 208, 7, 0, 0, 0, 0, 0, 63, 102, 102, 166, 63,
      205, 204, 204, 63, 51, 51, 243, 63, 0, 0, 64, 64>>,
    \* 10: boost row, rpm 2000, throttle 1.1 1.3 1.6 1.9 3.5 (out of range)
    <<36, 81, 95, 94, 131, 150, 170, 208, 7, 0, 0, 205, 204, 140, 63, 102, 102, 166, 63,
      205, 204, 204, 63, 51, 51, 243, 63, 0, 0, 96, 64>>,
    \* 11: boost ZeroRpm row, byte 5, throttle 0.4 (out of range) 1.2 1.5 1.8 2.0
    <<36, 81, 95, 94, 131, 134, 170, 5, 205, 204, 204, 62, 154, 153, 153, 63, 0, 0, 192, 63,
      102, 102, 230, 63, 0, 0, 0, 64>>,
    \* 12: boost row, rpm 30000 (out of range), throttle 1.1 1.3 1.6 1.9 2.1
    <<36, 81, 95, 94, 131, 150, 170, 48, 117, 0, 0, 205, 204, 140, 63, 102, 102, 166, 63,
      205, 204, 204, 63, 51, 51, 243, 63, 102, 102, 6, 64>>,
    \* 13: LaunchRPMLogic, 1.0 2.0
    <<36, 121, 2, 182, 189, 162, 0, 0, 128, 63, 0, 0, 0, 64>>,
    \* 14: LaunchRPMLogic whose payload starts with the RevLimitSetting signature
    <<36, 121, 2, 182, 189, 162, 32, 165, 92, 193, 196, 1, 0, 0>>,
    \* 15: a boost table: chunk 8 followed by chunk 9
    <<36, 81, 95, 94, 131, 134, 170, 0, 0, 0, 128, 63, 154, 153, 153, 63, 0, 0, 192, 63,
      102, 102, 230, 63, 0, 0, 0, 64,
      36, 81, 95, 94, 131, 150, 170, 208, 7, 0, 0, 0, 0, 0, 63, 102, 102, 166, 63,
      205, 204, 204, 63, 51, 51, 243, 63, 0, 0, 64, 64>>,
    \* 16: a torque table: chunk 1 followed by chunk 3
    <<36, 139, 10, 183, 113, 131, 2, 0, 0, 0, 32, 65, 0, 0, 200, 66,
      36, 139, 10, 183, 113, 147, 2, 232, 3, 0, 0, 0, 0, 128, 63, 0, 0, 22, 67>>,
    \* 17: RevLimitSetting, byte 1
    <<32, 165, 92, 193, 196, 1>>,
    \* 18: RevLimitSetting_NoValue, a signature with no payload
    <<40, 165, 92, 193, 196>>,
    \* 19: engine layout code of Straight 4
    <<215, 45, 59>>,
    \* 20: engine layout code of Flat 4 / 3 Rotor
    <<194, 45, 59>>,
    \* 21: 61 filler bytes
    <<0, 0, 0, 0, 0, 0, 0, 0, 0, 0, 0, 0, 0, 0, 0, 0, 0, 0, 0, 0,
      0, 0, 0, 0, 0, 0, 0, 0, 0, 0, 0, 0, 0, 0, 0, 0, 0, 0, 0, 0,
      0, 0, 0, 0, 0, 0, 0, 0, 0, 0, 0, 0, 0, 0, 0, 0, 0, 0, 0, 0, 0>>,
    \* 22: LaunchRPMLogic with 3 of its 8 payload bytes
    <<36, 121, 2, 182, 189, 162, 0, 0, 128>>,
    \* 23: a torque table ending in an EndVar row: chunk 1 followed by chunk 5
    <<36, 139, 10, 183, 113, 131, 2, 0, 0, 0, 32, 65, 0, 0, 200, 66,
      36, 139, 10, 183, 113, 147, 0, 48, 117, 0, 0, 40, 107, 110, 78, 9>>,
    \* 24: boost row, rpm 1000, throttle 0.5 1.3 1.6 1.9 3.0
    <<36, 81, 95, 94, 131, 150, 170, 232, 3, 0, 0, 0, 0, 0, 63, 102, 102, 166, 63,
      205, 204, 204, 63, 51, 51, 243, 63, 0, 0, 64, 64>>,
    \* 25: RowFloat with 3 of its 12 payload bytes
    <<36, 139, 10, 183, 113, 163, 2, 0, 16, 250>>,
    \* 26: ZeroRpm row with 3 of its 9 payload bytes
    <<36, 139, 10, 183, 113, 131, 2, 0, 0, 0>>,
    \* 27: ZeroRpm row, byte 0, compression 10.0, torque 20000.0 (out of range)
    <<36, 139, 10, 183, 113, 131, 2, 0, 0, 0, 32, 65, 0, 64, 156, 70>>,
    \* 28: EndVar, rpm -1, compression 1.0, trailing byte 0
    <<36, 139, 10, 183, 113, 147, 0, 255, 255, 255, 255, 0, 0, 128, 63, 0>>,
    \* 29: RowInt, rpm 0, compression 1.0, torque 150.0
    <<36, 139, 10, 183, 113, 147, 2, 0, 0, 0, 0, 0, 0, 128, 63, 0, 0, 22, 67>>,
    \* 30: IdleRPMLogic, the int variant, 800 1000
    <<36, 77, 35, 151, 84, 82, 32, 3, 0, 0, 232, 3, 0, 0>>,
    \* 31: RevLimitRange, the int variant, 7000 1 2
    <<36, 222, 167, 46, 183, 19, 0, 88, 27, 0, 0, 1, 2>>,
    \* 32: RowFloat whose payload holds the ZeroRpm signature from its second
    \* byte on (rpm 1.3e-32, compression 1.9e-37, torque 0.0), and 5 filler bytes
    <<36, 139, 10, 183, 113, 163, 2, 0, 36, 139, 10, 183, 113, 131, 2, 0, 0, 0, 0,
      0, 0, 0, 0, 0>>
  >>

TorqueLib == {1, 2, 3, 4, 5, 6, 7}
BoostLib == {7, 8, 9, 10, 11, 12, 24}
SessionLib == {1, 3, 4, 5, 13, 14, 15}
TripLib == {4, 5, 13, 15, 16}
FindBytes == {1, 170}
ParamLib == {7, 13, 14, 17, 18, 22}
LayoutLib == {7, 19, 20, 21}
CutLib == {13, 15, 16, 17, 23, 30, 31}
RunTorqueLib == {1, 3, 6, 7, 25, 26, 27, 28, 29, 32}

RECURSIVE Concat(_)
Concat(cs) == IF cs = <<>> THEN <<>> ELSE Chunks[Head(cs)] \o Concat(Tail(cs))

Buffers(lib, n) == {Concat(cs) : cs \in UNION {[1..k -> lib] : k \in 0..n}}

\* every prefix of a chunk of lib: buffers cut off inside a signature or a payload
CutOffs(lib) == UNION {{SubSeq(Chunks[c], 1, n) : n \in 0..Len(Chunks[c])} : c \in lib}

ByteStrings(lo, hi) == UNION {[1..k -> FindBytes] : k \in lo..hi}

ScIdle == [which |-> "none", pc |-> "idle", offs |-> <<>>, off0 |-> -1, q |-> 0,
           rows |-> <<>>, out |-> <<>>]
FaIdle == [sub |-> <<>>, start |-> 0, out |-> <<>>, done |-> TRUE]
NoScan == [tables |-> <<>>, boost |-> <<>>, params |-> <<>>]
NoCall == [fn |-> "none", pos |-> 0, fmt |-> <<>>, ret |-> <<>>]
\* EDFViewer.__init__: no file, nothing modified
EdIdle == [modified |-> FALSE, bytearray |-> FALSE, edited |-> FALSE, op |-> "init",
           ok |-> TRUE, item |-> <<>>, vals |-> <<>>]
NoWrite == [kind |-> "none", rowkind |-> "none", offset |-> 0, siglen |-> 0, size |-> 0,
            ok |-> TRUE]

----------------------------------------------------------------------------
(* find_all run one resumption at a time *)

InitFind ==
    /\ data \in ByteStrings(0, MaxLen)
    /\ \E sub \in ByteStrings(1, MaxNeedle) :
          fa = [sub |-> sub, start |-> 0, out |-> <<>>, done |-> FALSE]
    /\ orig = data /\ pre = data
    /\ tables = <<>> /\ boost = <<>> /\ params = <<>>
    /\ last = NoWrite /\ nwrites = 0
    /\ phase = "find" /\ ledger = <<>> /\ rescan = NoScan /\ sc = ScIdle /\ call = NoCall /\ ed = EdIdle

\* the generator yields the next offset
FindYield ==
    /\ ~fa.done
    /\ LET s == FindStep(data, fa.sub, fa.start)
       IN  /\ s.i # -1
           /\ fa' = [fa EXCEPT !.out = Append(@, s.i), !.start = s.start]
    /\ UNCHANGED <<data, orig, tables, boost, params, pre, last, nwrites, phase, ledger, rescan, sc, call, ed>>

\* the generator returns
FindReturn ==
    /\ ~fa.done
    /\ FindStep(data, fa.sub, fa.start).i = -1
    /\ fa' = [fa EXCEPT !.done = TRUE]
    /\ UNCHANGED <<data, orig, tables, boost, params, pre, last, nwrites, phase, ledger, rescan, sc, call, ed>>

NextFind == FindYield \/ FindReturn

SpecFind == InitFind /\ [][NextFind]_vars

----------------------------------------------------------------------------
(* parse_torque_tables and parse_boost_tables run one loop pass at a time *)

Sig0Of(which) == IF which = "torque" THEN SIG_0RPM ELSE SIG_BOOST_0RPM
Row0Of(which, d, off0) == IF which = "torque" THEN TorqueRow0(d, off0) ELSE BoostRow0(d, off0)
RowStepOf(which, d, q, rows) ==
    IF which = "torque" THEN TorqueRowStep(d, q, rows) ELSE BoostRowStep(d, q, rows)
EmitOf(which, out, off0, rows) ==
    IF which = "torque" THEN TorqueEmit(out, off0, rows) ELSE BoostEmit(out, off0, rows)

InitScan ==
    /\ \E which \in {"torque", "boost"} :
          /\ data \in Buffers(IF which = "torque" THEN TorqueLib ELSE BoostLib, MaxChunks)
          /\ sc = [which |-> which, pc |-> "next", offs |-> find_all(data, Sig0Of(which)),
                   off0 |-> -1, q |-> 0, rows |-> <<>>, out |-> <<>>]
    /\ orig = data /\ pre = data
    /\ tables = <<>> /\ boost = <<>> /\ params = <<>>
    /\ last = NoWrite /\ nwrites = 0
    /\ phase = "scan" /\ ledger = <<>> /\ rescan = NoScan /\ fa = FaIdle /\ call = NoCall /\ ed = EdIdle

\* `for off0 in find_all(...)`: the ZeroRpm candidate is read; a candidate cut
\* off by the end of the buffer or out of range is skipped
ScanCandidate ==
    /\ sc.pc = "next" /\ sc.offs # <<>>
    /\ \E off0 \in {Head(sc.offs)} : \E r0 \in {Row0Of(sc.which, data, off0)} :
           sc' = [sc EXCEPT !.off0 = off0, !.offs = Tail(@), !.rows = r0.rows, !.q = r0.q,
                            !.pc = IF r0.raised THEN "raised"
                                   ELSE IF r0.ok THEN "rows" ELSE "next"]
    /\ UNCHANGED <<data, orig, tables, boost, params, pre, last, nwrites, phase, ledger, rescan, fa, call, ed>>

\* one pass of `while q < len(data)`
ScanRow ==
    /\ sc.pc = "rows" /\ sc.q < Len(data)
    /\ \E s \in {RowStepOf(sc.which, data, sc.q, sc.rows)} :
           sc' = [sc EXCEPT !.q = s.q, !.rows = s.rows,
                            !.pc = IF s.raised THEN "raised"
                                   ELSE IF s.go THEN "rows" ELSE "emit"]
    /\ UNCHANGED <<data, orig, tables, boost, params, pre, last, nwrites, phase, ledger, rescan, fa, call, ed>>

\* the while condition fails: the cursor is at the end of the buffer
ScanRowsEnd ==
    /\ sc.pc = "rows" /\ ~(sc.q < Len(data))
    /\ sc' = [sc EXCEPT !.pc = "emit"]
    /\ UNCHANGED <<data, orig, tables, boost, params, pre, last, nwrites, phase, ledger, rescan, fa, call, ed>>

\* `if len(rows) >= 2`: the table is sorted and kept, or dropped
ScanEmit ==
    /\ sc.pc = "emit"
    /\ sc' = [sc EXCEPT !.out = EmitOf(sc.which, @, sc.off0, sc.rows), !.pc = "next"]
    /\ UNCHANGED <<data, orig, tables, boost, params, pre, last, nwrites, phase, ledger, rescan, fa, call, ed>>

\* `return tables`
ScanReturn ==
    /\ sc.pc = "next" /\ sc.offs = <<>>
    /\ sc' = [sc EXCEPT !.pc = "done"]
    /\ UNCHANGED <<data, orig, tables, boost, params, pre, last, nwrites, phase, ledger, rescan, fa, call, ed>>

NextScan == ScanCandidate \/ ScanRow \/ ScanRowsEnd \/ ScanEmit \/ ScanReturn

SpecScan == InitScan /\ [][NextScan]_vars

----------------------------------------------------------------------------
(* A scan run to its end: the generator of find_all, or the loops of
   parse_torque_tables / parse_boost_tables. Nothing but the loop itself
   decides whether the next pass runs, so a pass that can run does run. *)

InitRun ==
    \/ InitFind
    \/ /\ \E which \in {"torque", "boost"} :
              /\ data \in Buffers(IF which = "torque" THEN RunTorqueLib ELSE BoostLib, MaxRunChunks)
              /\ sc = [which |-> which, pc |-> "next", offs |-> find_all(data, Sig0Of(which)),
                       off0 |-> -1, q |-> 0, rows |-> <<>>, out |-> <<>>]
       /\ orig = data /\ pre = data
       /\ tables = <<>> /\ boost = <<>> /\ params = <<>>
       /\ last = NoWrite /\ nwrites = 0
       /\ phase = "scan" /\ ledger = <<>> /\ rescan = NoScan /\ fa = FaIdle /\ call = NoCall /\ ed = EdIdle

NextRun == NextFind \/ NextScan

SpecRun == InitRun /\ [][NextRun]_vars /\ WF_vars(NextRun)


----------------------------------------------------------------------------
(* An editing session: load_file, then writes through the Writer on the
   entities of that one scan. The application never scans again. *)

TorqueSig(kind) ==
    IF kind = "0rpm" THEN SIG_0RPM
    ELSE IF kind = "row_i" THEN SIG_ROW_I
    ELSE IF kind = "row_f" THEN SIG_ROW_F
    ELSE SIG_ENDVAR
BoostSig(kind) == IF kind = "boost_0rpm" THEN SIG_BOOST_0RPM ELSE SIG_BOOST_ROW

\* what EditTorqueDialog.on_save can leave in a row: float(rpm), float(compression)
\* and float(torque), or None for an empty torque field
TorqueEdits ==
    { \* 3000.0, 2.0, 150.0
      [rpm |-> F(1161527296), compression |-> F(1073741824), torque |-> F(1125515264)],
      \* 1000.5, 1e39, 100.0
      [rpm |-> F(1148854272), compression |-> Big, torque |-> F(1120403456)],
      \* 500.0, -300.0, empty torque field
      [rpm |-> F(1140457472), compression |-> F(-1013579776), torque |-> None],
      \* 3000.5, 2.0, 2.0 ** 127
      [rpm |-> F(1161529344), compression |-> F(1073741824), torque |-> F(2130706432)] }

\* values given to a boost row before write_boost_row
BoostEdits ==
    { \* 3000.0; 1.5 1.5 1.5 1.5 1.5
      [rpm |-> F(1161527296),
       t |-> <<F(1069547520), F(1069547520), F(1069547520), F(1069547520), F(1069547520)>>],
      \* 2000.5; 0.5 1.0 1e39 2.0 3.0
      [rpm |-> F(1157238784),
       t |-> <<F(1056964608), F(1065353216), Big, F(1073741824), F(1077936128)>>] }

ParamChoices == {1, 2, 3}

\* what EditParamDialog.on_save can leave in field i: an int stays an int, a
\* float stays a float.  Choice 1: 1.5 / 7.  Choice 2: the floats whose bytes
\* are 20 A5 5C C1 and C4 01 00 00 / an int beyond 32 bits / 300 for a byte.
\* Choice 3: 1.5 / 7 in the first field and, in the later ones, 1e39 / an
\* int beyond 32 bits / 300 for a byte.
ParamEditValue(f, i, c) ==
    IF c = 1 \/ (c = 3 /\ i = 1) THEN (IF f = "f" THEN F(1069547520) ELSE I(7))
    ELSE IF f = "f" THEN (IF c = 3 THEN Big
                          ELSE IF i = 1 THEN F(-1050893024) ELSE F(452))
    ELSE IF f = "i" THEN Big
    ELSE I(300)

Init ==
    /\ data \in Buffers(SessionLib, MaxSessionChunks)
    /\ orig = data /\ pre = data
    /\ tables = parse_torque_tables(data)
    /\ boost = parse_boost_tables(data)
    /\ params = parse_params(data)
    /\ last = NoWrite /\ nwrites = 0
    /\ phase = "session" /\ ledger = <<>> /\ rescan = NoScan /\ sc = ScIdle /\ fa = FaIdle
    /\ call = NoCall /\ ed = EdIdle

\* EditTorqueDialog.on_save, then on_row_update: the row object takes the
\* dialog's values and is written; an exception of the write leaves both the
\* edited row and whatever the write already did to the buffer
WriteTorqueRow ==
    /\ phase = "session" /\ nwrites < MaxWrites
    /\ \E t \in 1..Len(tables) : \E r \in 1..Len(tables[t].rows) : \E e \in TorqueEdits :
          LET row == [tables[t].rows[r] EXCEPT !.rpm = e.rpm,
                                               !.compression = e.compression,
                                               !.torque = e.torque]
              w == write_torque_row(data, row)
          IN  /\ tables' = [tables EXCEPT ![t].rows[r] = row]
              /\ data' = w.d
              /\ last' = [kind |-> "torque", rowkind |-> row.kind, offset |-> row.offset,
                          siglen |-> Len(TorqueSig(row.kind)), size |-> TorqueRowSize(row),
                          ok |-> w.ok]
    /\ pre' = data
    /\ nwrites' = nwrites + 1
    /\ UNCHANGED <<orig, boost, params, phase, ledger, rescan, sc, fa, call, ed>>

\* a boost row is given new values and written with write_boost_row
WriteBoostRow ==
    /\ phase = "session" /\ nwrites < MaxWrites
    /\ \E t \in 1..Len(boost) : \E r \in 1..Len(boost[t].rows) : \E e \in BoostEdits :
          LET row == [boost[t].rows[r] EXCEPT !.rpm = e.rpm, !.t0 = e.t[1], !.t25 = e.t[2],
                                              !.t50 = e.t[3], !.t75 = e.t[4], !.t100 = e.t[5]]
              w == write_boost_row(data, row)
          IN  /\ boost' = [boost EXCEPT ![t].rows[r] = row]
              /\ data' = w.d
              /\ last' = [kind |-> "boost", rowkind |-> row.kind, offset |-> row.offset,
                          siglen |-> Len(BoostSig(row.kind)), size |-> BoostRowSize(row),
                          ok |-> w.ok]
    /\ pre' = data
    /\ nwrites' = nwrites + 1
    /\ UNCHANGED <<orig, tables, params, phase, ledger, rescan, sc, fa, call, ed>>

\* EditParamDialog.on_save, then on_param_update
WriteParam ==
    /\ phase = "session" /\ nwrites < MaxWrites
    /\ \E k \in 1..Len(params) : \E c \in ParamChoices :
          LET p == [params[k] EXCEPT !.values =
                       [i \in 1..Len(params[k].values) |-> ParamEditValue(params[k].fmt[i], i, c)]]
              w == write_param(data, p)
          IN  /\ params' = [params EXCEPT ![k] = p]
              /\ data' = w.d
              /\ last' = [kind |-> "param", rowkind |-> p.name, offset |-> p.offset,
                          siglen |-> ParameterSize(p) - StructSize(p.fmt),
                          size |-> ParameterSize(p), ok |-> w.ok]
    /\ pre' = data
    /\ nwrites' = nwrites + 1
    /\ UNCHANGED <<orig, tables, boost, phase, ledger, rescan, sc, fa, call, ed>>

\* the percentages entered in scale_torque_dialog (askfloat takes 0.1 to 1000)
ScalePercents == {200, 400}
\* factor = percent / 100.0, as the k of 2.0 ** k
FactorExp(percent) == IF percent = 200 THEN 1 ELSE 2

\* scale_torque_dialog: nothing without a loaded buffer; the held tables are
\* scaled in place and written row by row, an exception of a write leaves the
\* rows scaled so far, the row that failed and the buffer as they are
ScaleTorque ==
    /\ phase = "session" /\ nwrites < MaxWrites
    /\ data # <<>>
    /\ \E percent \in ScalePercents :
          \E s \in {scale_torque_tables(data, tables, FactorExp(percent))} :
              /\ tables' = s.tables
              /\ data' = s.d
              /\ last' = [kind |-> "scale", rowkind |-> "none", offset |-> 0, siglen |-> 0,
                          size |-> 0, ok |-> s.ok]
    /\ pre' = data
    /\ nwrites' = nwrites + 1
    /\ UNCHANGED <<orig, boost, params, phase, ledger, rescan, sc, fa, call, ed>>

Next == WriteTorqueRow \/ WriteBoostRow \/ WriteParam \/ ScaleTorque

Spec == Init /\ [][Next]_vars

----------------------------------------------------------------------------
(* The ledger round trip of tests/test_roundtrip.py (test_full_round_trip):
   scan, mutate and write, scan again, reinstate by index and write.
   Indices are 1-based here. *)

RTChoices == {1, 2}

RowEntries(entity, ti, rows) ==
    [ri \in 1..Len(rows) |->
        [entity |-> entity, table |-> ti, row |-> ri, kind |-> rows[ri].kind, fmt |-> <<>>,
         old |-> IF entity = "torque"
                 THEN <<rows[ri].rpm, rows[ri].compression, rows[ri].torque>>
                 ELSE <<rows[ri].rpm, rows[ri].t0, rows[ri].t25, rows[ri].t50,
                        rows[ri].t75, rows[ri].t100>>,
         new |-> <<>>]]

RECURSIVE TableEntries(_, _, _)
TableEntries(entity, tabs, ti) ==
    IF ti > Len(tabs) THEN <<>>
    ELSE RowEntries(entity, ti, tabs[ti].rows) \o TableEntries(entity, tabs, ti + 1)

record_torque(tabs) == TableEntries("torque", tabs, 1)
record_boost(tabs) == TableEntries("boost", tabs, 1)

\* a parameter without values gets no ledger entry
RECURSIVE ParamEntries(_, _)
ParamEntries(ps, pi) ==
    IF pi > Len(ps) THEN <<>>
    ELSE (IF ps[pi].values = <<>> THEN <<>>
          ELSE << [entity |-> "param", table |-> 0, row |-> pi, kind |-> ps[pi].name,
                   fmt |-> ps[pi].fmt, old |-> ps[pi].values, new |-> <<>>] >>)
         \o ParamEntries(ps, pi + 1)

record_params(ps) == ParamEntries(ps, 1)

\* the in-range mutation of one ledger entry, by choice c.  A ZeroRpm rpm and
\* a missing torque are left alone, bytes are untouched.
\*   torque rows: 1 -> rpm 3000.0, compression 2.0, torque 150.0
\*                2 -> rpm 500.0, compression -300.0, torque 10000.0
\*   boost rows:  1 -> rpm 3000.0, throttle 1.5 x 5
\*                2 -> rpm 500.0, throttle 0.5 1.0 1.5 2.0 3.0
\*   parameters:  1 -> floats 1.5, ints 7
\*                2 -> floats with bytes 20 A5 5C C1 (first field) and
\*                     C4 01 00 00 (the others), ints -1
NewValues(en, c) ==
    IF en.entity = "torque"
    THEN << IF en.kind = "0rpm" THEN en.old[1]
            ELSE IF c = 1 THEN F(1161527296) ELSE F(1140457472),
            IF c = 1 THEN F(1073741824) ELSE F(-1013579776),
            IF en.old[3] = None THEN None
            ELSE IF c = 1 THEN F(1125515264) ELSE F(1176256512) >>
    ELSE IF en.entity = "boost"
    THEN IF c = 1
         THEN << IF en.kind = "boost_0rpm" THEN en.old[1] ELSE F(1161527296),
                 F(1069547520), F(1069547520), F(1069547520), F(1069547520), F(1069547520) >>
         ELSE << IF en.kind = "boost_0rpm" THEN en.old[1] ELSE F(1140457472),
                 F(1056964608), F(1065353216), F(1069547520), F(1073741824), F(1077936128) >>
    ELSE [i \in 1..Len(en.old) |->
             IF i > Len(en.fmt) THEN en.old[i]
             ELSE IF en.fmt[i] = "f"
                  THEN (IF c = 1 THEN F(1069547520)
                        ELSE IF i = 1 THEN F(-1050893024) ELSE F(452))
             ELSE IF en.fmt[i] = "i" THEN (IF c = 1 THEN I(7) ELSE I(-1))
             ELSE en.old[i]]

\* _apply_torque / _apply_boost / _apply_params for one ledger entry: the
\* entity at the entry's index takes the values and is written.  ok = FALSE
\* when the index does not exist or the write raises.
ApplyEntry(d, tabs, bst, ps, en, vals) ==
    IF en.entity = "torque"
    THEN IF en.table > Len(tabs) THEN [d |-> d, ok |-> FALSE]
         ELSE IF en.row > Len(tabs[en.table].rows) THEN [d |-> d, ok |-> FALSE]
         ELSE write_torque_row(d, [tabs[en.table].rows[en.row] EXCEPT
                                      !.rpm = vals[1], !.compression = vals[2],
                                      !.torque = vals[3]])
    ELSE IF en.entity = "boost"
    THEN IF en.table > Len(bst) THEN [d |-> d, ok |-> FALSE]
         ELSE IF en.row > Len(bst[en.table].rows) THEN [d |-> d, ok |-> FALSE]
         ELSE write_boost_row(d, [bst[en.table].rows[en.row] EXCEPT
                                     !.rpm = vals[1], !.t0 = vals[2], !.t25 = vals[3],
                                     !.t50 = vals[4], !.t75 = vals[5], !.t100 = vals[6]])
    ELSE IF en.row > Len(ps) THEN [d |-> d, ok |-> FALSE]
         ELSE write_param(d, [ps[en.row] EXCEPT !.values = vals])

\* the three apply loops, in ledger order
RECURSIVE ApplyFrom(_, _, _, _, _, _, _)
ApplyFrom(d, tabs, bst, ps, led, k, use_new) ==
    IF k > Len(led) THEN [d |-> d, ok |-> TRUE]
    ELSE Bind(ApplyEntry(d, tabs, bst, ps, led[k],
                         IF use_new THEN led[k].new ELSE led[k].old),
              LAMBDA w : IF ~w.ok THEN w
                         ELSE ApplyFrom(w.d, tabs, bst, ps, led, k + 1, use_new))

InitRT ==
    /\ data \in Buffers(TripLib, MaxTripChunks)
    /\ orig = data /\ pre = data
    /\ tables = parse_torque_tables(data)
    /\ boost = parse_boost_tables(data)
    /\ params = parse_params(data)
    /\ last = NoWrite /\ nwrites = 0
    /\ phase = "scanned" /\ ledger = <<>> /\ rescan = NoScan /\ sc = ScIdle /\ fa = FaIdle
    /\ call = NoCall /\ ed = EdIdle

\* pass 1: record the ledger, write the new values of every entry
RTMutate ==
    /\ phase = "scanned"
    /\ \E led0 \in {record_torque(tables) \o record_boost(boost) \o record_params(params)} :
          \E plan \in [1..Len(led0) -> RTChoices] :
             \E led \in {[k \in 1..Len(led0) |->
                             [led0[k] EXCEPT !.new = NewValues(led0[k], plan[k])]]} :
                \E w \in {ApplyFrom(data, tables, boost, params, led, 1, TRUE)} :
                   /\ ledger' = led
                   /\ data' = w.d
                   /\ phase' = IF w.ok THEN "mutated" ELSE "error"
    /\ pre' = data
    /\ UNCHANGED <<orig, tables, boost, params, last, nwrites, rescan, sc, fa, call, ed>>

\* pass 2 opens the modified file and scans it
RTRescan ==
    /\ phase = "mutated"
    /\ rescan' = [tables |-> parse_torque_tables(data),
                  boost |-> parse_boost_tables(data),
                  params |-> parse_params(data)]
    /\ phase' = "rescanned"
    /\ UNCHANGED <<data, orig, tables, boost, params, pre, last, nwrites, ledger, sc, fa, call, ed>>

\* the old values go back into the rescanned entities at the ledger's indices
RTReinstate ==
    /\ phase = "rescanned"
    /\ \E w \in {ApplyFrom(data, rescan.tables, rescan.boost, rescan.params, ledger, 1, FALSE)} :
          /\ data' = w.d
          /\ phase' = IF w.ok THEN "done" ELSE "error"
    /\ pre' = data
    /\ UNCHANGED <<orig, tables, boost, params, last, nwrites, ledger, rescan, sc, fa, call, ed>>

NextRT == RTMutate \/ RTRescan \/ RTReinstate

SpecRT == InitRT /\ [][NextRT]_vars

----------------------------------------------------------------------------
(* The helpers of the parser called on a buffer, one call at a time *)

ReadFormats ==
    {<<>>, <<"f">>, <<"i">>, <<"b">>, <<"f", "i", "b">>, <<"b", "f">>, <<"b", "x", "f">>, <<"x">>}

\* the offsets read_by_fmt is called at: the start and the last bytes of the buffer
ReadPositions(d) == {0} \cup {p \in (Len(d) - MaxBack)..Len(d) : p >= 0}

CallBuffers ==
    Buffers(ParamLib, MaxParamChunks) \cup Buffers(LayoutLib, MaxLayoutChunks)
        \cup Buffers(SessionLib, MaxSessionChunks) \cup CutOffs(CutLib)

\* the orders a list is handed over in: its rotations and those of its reverse
Orderings(seq) ==
    LET n == Len(seq)
        rev == [i \in 1..n |-> seq[n + 1 - i]]
        rot(q, k) == [i \in 1..n |-> q[((i + k - 1) % n) + 1]]
    IN  IF n = 0 THEN {seq} ELSE {rot(seq, k) : k \in 0..(n - 1)} \cup {rot(rev, k) : k \in 0..(n - 1)}

InitCall ==
    /\ data \in CallBuffers
    /\ orig = data /\ pre = data
    /\ tables = <<>> /\ boost = <<>> /\ params = <<>>
    /\ last = NoWrite /\ nwrites = 0
    /\ phase = "call" /\ ledger = <<>> /\ rescan = NoScan /\ sc = ScIdle /\ fa = FaIdle
    /\ call = NoCall /\ ed = EdIdle

CallReadByFmt ==
    /\ phase = "call"
    /\ \E pos \in ReadPositions(data), fmt \in ReadFormats :
          call' = [fn |-> "read_by_fmt", pos |-> pos, fmt |-> fmt,
                   ret |-> read_by_fmt(data, pos, fmt)]
    /\ phase' = "returned"
    /\ UNCHANGED <<data, orig, tables, boost, params, pre, last, nwrites, ledger, rescan, sc, fa, ed>>

CallParseParams ==
    /\ phase = "call"
    /\ call' = [fn |-> "parse_params", pos |-> 0, fmt |-> <<>>, ret |-> ParamScan(data)]
    /\ phase' = "returned"
    /\ UNCHANGED <<data, orig, tables, boost, params, pre, last, nwrites, ledger, rescan, sc, fa, ed>>

CallParseTorqueTables ==
    /\ phase = "call"
    /\ call' = [fn |-> "parse_torque_tables", pos |-> 0, fmt |-> <<>>, ret |-> TorqueScan(data)]
    /\ phase' = "returned"
    /\ UNCHANGED <<data, orig, tables, boost, params, pre, last, nwrites, ledger, rescan, sc, fa, ed>>

CallParseBoostTables ==
    /\ phase = "call"
    /\ call' = [fn |-> "parse_boost_tables", pos |-> 0, fmt |-> <<>>, ret |-> BoostScan(data)]
    /\ phase' = "returned"
    /\ UNCHANGED <<data, orig, tables, boost, params, pre, last, nwrites, ledger, rescan, sc, fa, ed>>

CallDetectEngineLayout ==
    /\ phase = "call"
    /\ call' = [fn |-> "detect_engine_layout", pos |-> 0, fmt |-> <<>>,
                ret |-> detect_engine_layout(data)]
    /\ phase' = "returned"
    /\ UNCHANGED <<data, orig, tables, boost, params, pre, last, nwrites, ledger, rescan, sc, fa, ed>>

\* the accounting of open_file: the buffer is scanned, the ranges of the
\* entities are collected (in any order), merged and subtracted from the length
CallUnknownBytes ==
    /\ phase = "call"
    /\ LET tabs == parse_torque_tables(data)
           bst == parse_boost_tables(data)
           ps == EditorParams(data)
       IN  /\ tables' = tabs /\ boost' = bst /\ params' = ps
           /\ \E ranges \in Orderings(EntityRanges(tabs, bst, ps)) :
                 LET known_ranges == calculate_known_ranges(ranges)
                 IN  call' = [fn |-> "calculate_unknown_bytes", pos |-> 0, fmt |-> <<>>,
                              ret |-> [ranges |-> ranges, known_ranges |-> known_ranges,
                                       unknown_bytes |-> calculate_unknown_bytes(data, known_ranges)]]
    /\ phase' = "returned"
    /\ UNCHANGED <<data, orig, pre, last, nwrites, ledger, rescan, sc, fa, ed>>

NextCall ==
    \/ CallReadByFmt \/ CallParseParams \/ CallParseTorqueTables \/ CallParseBoostTables
    \/ CallDetectEngineLayout \/ CallUnknownBytes

SpecCall == InitCall /\ [][NextCall]_vars

----------------------------------------------------------------------------
(* Properties of the scanners *)

InRange(x, lo, hi) == NumLeq(I(lo), x) /\ NumLeq(x, I(hi))
\* 0.5 <= x <= 3.0
InThrottleRange(x) == NumLeq(F(1056964608), x) /\ NumLeq(x, F(1077936128))

ScanRowsOf(which) ==
    IF sc.which # which THEN {}
    ELSE UNION {{sc.out[k].rows[j] : j \in 1..Len(sc.out[k].rows)} : k \in 1..Len(sc.out)}

\* C5 as stated: every row of every table returned by parse_torque_tables,
\* EndVar rows included, has rpm in [0, 25000], compression in [-300, 300]
\* and, when it has a torque, torque in [-4000, 10000]
C5_EveryRowPlausible ==
    \A r \in ScanRowsOf("torque") :
        /\ InRange(r.rpm, 0, 25000)
        /\ InRange(r.compression, -300, 300)
        /\ (r.torque # None => InRange(r.torque, -4000, 10000))

\* C5 amended: every ZeroRpm, RowInt and RowFloat row of a returned table has
\* rpm in [0, 25000], compression in [-300, 300] and a torque in [-4000, 10000];
\* an EndVar row has no torque and is not range-checked
C5_GatedRowsPlausible ==
    \A r \in ScanRowsOf("torque") :
        IF r.kind = "endvar" THEN r.torque = None
        ELSE /\ InRange(r.rpm, 0, 25000)
             /\ InRange(r.compression, -300, 300)
             /\ r.torque # None
             /\ InRange(r.torque, -4000, 10000)

\* a returned table holds an in-range RowInt row and an EndVar row whose rpm
\* and compression are out of range
C5_Witness ==
    /\ sc.pc = "done"
    /\ \E r \in ScanRowsOf("torque") : r.kind = "row_i" /\ InRange(r.rpm, 0, 25000)
    /\ \E r \in ScanRowsOf("torque") :
          r.kind = "endvar" /\ ~InRange(r.rpm, 0, 25000) /\ ~InRange(r.compression, -300, 300)

\* C6: every row of every table returned by parse_boost_tables, the ZeroRpm
\* row included, has its five throttle values in [0.5, 3.0], and every
\* non-zero row has rpm in [0, 25000]
C6_BoostRowsPlausible ==
    \A r \in ScanRowsOf("boost") :
        /\ \A v \in {r.t0, r.t25, r.t50, r.t75, r.t100} : InThrottleRange(v)
        /\ (r.kind # "boost_0rpm" => InRange(r.rpm, 0, 25000))

\* a boost table was returned from a buffer that also holds a boost row
\* signature whose row was not accepted
C6_Witness ==
    /\ sc.pc = "done" /\ sc.which = "boost"
    /\ \E r \in ScanRowsOf("boost") : r.kind = "boost_row"
    /\ \E q \in 0..Len(data) :
          /\ MatchAt(data, q, SIG_BOOST_ROW)
          /\ \A r \in ScanRowsOf("boost") : r.offset # q

\* C7: every table returned by parse_torque_tables and by parse_boost_tables
\* has at least 2 rows
C7_AtLeastTwoRows ==
    \A k \in 1..Len(sc.out) : Len(sc.out[k].rows) >= 2

\* the scan is over, its last candidate was an accepted ZeroRpm row that no
\* row followed, and no table came out of it
C7_Witness ==
    /\ sc.pc = "done" /\ sc.off0 >= 0
    /\ Len(sc.rows) = 1
    /\ \A k \in 1..Len(sc.out) : sc.out[k].offset # sc.off0

C8_State ==
    sc.which = "torque" =>
        /\ (sc.pc = "rows" => \A k \in 1..Len(sc.rows) : sc.rows[k].kind # "endvar")
        /\ \A k \in 1..Len(sc.out) : \A i, j \in 1..Len(sc.out[k].rows) :
              LET e == sc.out[k].rows[i]
                  r == sc.out[k].rows[j]
              IN  (e.kind = "endvar" /\ i # j) => (r.kind # "endvar" /\ r.offset < e.offset)
C8_Step ==
    (sc.which = "torque" /\ sc.pc = "rows" /\ sc.q < Len(data) /\ MatchAt(data, sc.q, SIG_ENDVAR))
        => sc'.pc = "emit"

\* C8: when the row cursor of parse_torque_tables meets an EndVar signature the
\* row loop of that table ends with that pass, whatever bytes follow; a
\* returned table holds at most one EndVar row and no row located after it
C8_EndVarTerminal == [] C8_State /\ [][C8_Step]_vars

\* a returned table holds a RowInt row and then an EndVar row, and the bytes
\* right after the EndVar row are an acceptable RowInt row that is in no table
C8_Witness ==
    /\ sc.pc = "done"
    /\ Len(sc.out) = 1
    /\ \E r, e \in ScanRowsOf("torque") :
          /\ r.kind = "row_i" /\ e.kind = "endvar" /\ r.offset < e.offset
          /\ MatchAt(data, e.offset + TorqueRowSize(e), SIG_ROW_I)
          /\ TorqueRowStep(data, e.offset + TorqueRowSize(e), <<>>).go
          /\ \A x \in ScanRowsOf("torque") : x.offset <= e.offset

\* the 16 bytes 24 8B 0A B7 71 83 02 00 00 00 20 41 00 00 C8 42
C9Buffer == <<36, 139, 10, 183, 113, 131, 2, 0, 0, 0, 32, 65, 0, 0, 200, 66>>
\* kind ZeroRpm, compression 10.0, torque 100.0, offset 0
C9Row == TorqueRow(F(0), F(1092616192), F(1120403456), 0, "0rpm")

\* C9 as stated: scanning the 16-byte buffer with the torque scanner yields one
\* TorqueRow, of kind ZeroRpm with compression 10.0, torque 100.0 and offset 0
C9_YieldsOneRow ==
    (sc.which = "torque" /\ data = C9Buffer /\ sc.pc = "done")
        => (Len(sc.out) = 1 /\ sc.out[1].rows = <<C9Row>>)

\* C9 amended: on the 16-byte buffer the torque scanner decodes one ZeroRpm
\* row with compression 10.0, torque 100.0 and offset 0, and returns no table,
\* since no row follows it
C9_LoneRowDecodedAndDropped ==
    (sc.which = "torque" /\ data = C9Buffer /\ sc.pc = "done")
        => (sc.out = <<>> /\ sc.rows = <<C9Row>>)

\* the torque scanner has finished on the 16-byte buffer
C9_Witness == sc.which = "torque" /\ data = C9Buffer /\ sc.pc = "done" /\ sc.off0 = 0

\* C10: the offsets find_all has yielded are positions where the needle
\* occurs, in strictly ascending order, and any two of them are at least the
\* needle length apart
C10_FindAllNoOverlap ==
    /\ \A k \in 1..Len(fa.out) : MatchAt(data, fa.out[k], fa.sub)
    /\ \A j, k \in 1..Len(fa.out) :
          j < k => (fa.out[j] < fa.out[k] /\ fa.out[j] + Len(fa.sub) <= fa.out[k])

\* the generator has returned after yielding, and the needle also occurs at a
\* position it did not yield, overlapping a yielded match
C10_Witness ==
    /\ phase = "find" /\ fa.done /\ Len(fa.out) >= 1
    /\ \E p \in 0..Len(data) :
          /\ MatchAt(data, p, fa.sub)
          /\ \A k \in 1..Len(fa.out) : fa.out[k] # p
          /\ \E k \in 1..Len(fa.out) : fa.out[k] < p /\ p < fa.out[k] + Len(fa.sub)

----------------------------------------------------------------------------
(* Properties of the Writer and of the round trip *)

RowSigs == {SIG_0RPM, SIG_ROW_I, SIG_ROW_F, SIG_ENDVAR, SIG_BOOST_0RPM, SIG_BOOST_ROW}
CatalogSigs == {PARAMS[k].sig : k \in 1..Len(PARAMS)}
RowSigsByFirstByte == [b \in 0..255 |-> {s \in RowSigs : s[1] = b}]
AllSigsByFirstByte == [b \in 0..255 |-> {s \in RowSigs \cup CatalogSigs : s[1] = b}]

\* the (signature, offset) pairs at which a signature stands in buffer d,
\* for the signatures of the index byfirst
SigOccurrences(d, byfirst) ==
    UNION { { <<s, i>> : s \in {t \in byfirst[d[i + 1]] : MatchAt(d, i, t)} }
            : i \in 0..(Len(d) - 1) }

\* the entities of one scan: the signatures an entity of that kind can carry,
\* its offset, its signature length and its size
EntitySet(tabs, bst, ps) ==
    UNION { { [sigs |-> {TorqueSig(tabs[t].rows[r].kind)},
               offset |-> tabs[t].rows[r].offset,
               siglen |-> Len(TorqueSig(tabs[t].rows[r].kind)),
               size |-> TorqueRowSize(tabs[t].rows[r])] : r \in 1..Len(tabs[t].rows) }
            : t \in 1..Len(tabs) }
    \cup
    UNION { { [sigs |-> {BoostSig(bst[t].rows[r].kind)},
               offset |-> bst[t].rows[r].offset,
               siglen |-> Len(BoostSig(bst[t].rows[r].kind)),
               size |-> BoostRowSize(bst[t].rows[r])] : r \in 1..Len(bst[t].rows) }
            : t \in 1..Len(bst) }
    \cup
    { [sigs |-> {PARAMS[k].sig : k \in {j \in 1..Len(PARAMS) : PARAMS[j].name = ps[i].name}},
       offset |-> ps[i].offset,
       siglen |-> ParameterSize(ps[i]) - StructSize(ps[i].fmt),
       size |-> ParameterSize(ps[i])] : i \in 1..Len(ps) }

HasSig(d, e) == \E s \in e.sigs : MatchAt(d, e.offset, s)

\* no byte of e lies in o
Apart(e, o) == e.offset + e.size <= o.offset \/ o.offset + o.size <= e.offset

\* no signature byte of e lies in the payload of o
SigOutsidePayload(e, o) ==
    \/ o.siglen = o.size
    \/ e.offset + e.siglen <= o.offset + o.siglen
    \/ o.offset + o.size <= e.offset

\* C1 (as stated): the round trip gives back the original buffer: once the old
\* values have been written back at the ledger's indices, the buffer equals
\* the buffer the round trip started from, byte for byte.
C1_RoundTripRestores == phase = "done" => data = orig

\* C2 (as stated): after the in-range edits are written, each of the three
\* scanners returns as many entities on the modified buffer as on the
\* original one.
C2_SameCounts ==
    phase = "rescanned" =>
        /\ Len(rescan.tables) = Len(tables)
        /\ Len(rescan.boost) = Len(boost)
        /\ Len(rescan.params) = Len(params)

\* the buffers of a round trip are free of signature collisions: signatures
\* stand in the modified buffer exactly where they stand in the original one,
\* the scanned entities of the original do not overlap, and every table-row
\* signature in the original is the offset of a scanned row of that kind
C2_NoCollision ==
    LET ents == EntitySet(tables, boost, params)
    IN  /\ SigOccurrences(data, AllSigsByFirstByte) = SigOccurrences(orig, AllSigsByFirstByte)
        /\ \A e \in ents : \A o \in ents \ {e} : Apart(e, o)
        /\ \A x \in SigOccurrences(orig, RowSigsByFirstByte) :
              \E e \in ents : e.offset = x[2] /\ x[1] \in e.sigs

\* C2 (amended): without signature collisions, each scanner returns as many
\* entities on the modified buffer as on the original one.
C2_SameCountsWithoutCollision ==
    (phase = "rescanned" /\ C2_NoCollision) =>
        /\ Len(rescan.tables) = Len(tables)
        /\ Len(rescan.boost) = Len(boost)
        /\ Len(rescan.params) = Len(params)

\* a collision-free round trip that changed the buffer, with a torque table
\* and a parameter in it
C2_Witness ==
    /\ phase = "rescanned" /\ C2_NoCollision
    /\ data # orig
    /\ Len(tables) >= 1 /\ Len(params) >= 1

\* C3 (as stated): the last write changed nothing outside the payload of the
\* entity written, and kept the leading byte of a ZeroRpm torque or boost row
\* and the trailing byte of an EndVar row.
C3_WriteFrame ==
    last.kind \in {"torque", "boost", "param"} =>
        /\ Len(data) = Len(pre)
        /\ \A i \in 0..(Len(data) - 1) :
              (i < last.offset + last.siglen \/ i >= last.offset + last.size)
                  => data[i + 1] = pre[i + 1]
        /\ last.rowkind \in {"0rpm", "boost_0rpm"}
              => data[last.offset + last.siglen + 1] = pre[last.offset + last.siglen + 1]
        /\ last.rowkind = "endvar"
              => data[last.offset + last.size] = pre[last.offset + last.size]

\* C4 (as stated): after any sequence of writes the buffer has its original
\* length and every entity of the scan still has the signature of its kind at
\* its offset.
C4_OffsetsStayValid ==
    /\ Len(data) = Len(orig)
    /\ \A e \in EntitySet(tables, boost, params) : HasSig(data, e)

\* C4 (amended): after any sequence of writes the buffer has its original
\* length, and every entity of the scan whose signature bytes lie in no other
\* scanned entity's payload still has the signature of its kind at its offset.
C4_UncoveredSignaturesKept ==
    LET ents == EntitySet(tables, boost, params)
    IN  /\ Len(data) = Len(orig)
        /\ \A e \in ents :
              HasSig(data, e) \/ \E o \in ents \ {e} : ~SigOutsidePayload(e, o)

\* writes have changed the buffer; one entity has lost its signature to a
\* write of the entity whose payload covers it, the covering one has kept its own
C4_Witness ==
    LET ents == EntitySet(tables, boost, params)
    IN  /\ nwrites >= 1 /\ data # orig
        /\ \E e \in ents :
              /\ ~HasSig(data, e)
              /\ \E o \in ents \ {e} :
                    /\ ~SigOutsidePayload(e, o)
                    /\ HasSig(data, o)
                    /\ \A u \in ents \ {o} : SigOutsidePayload(o, u)


\* the number of places of seq holding x
C17_Count(seq, x) == Cardinality({i \in 1..Len(seq) : seq[i] = x})

\* C17: the rows of every table returned by parse_torque_tables and by
\* parse_boost_tables are in ascending rpm order and are the rows accepted in
\* on-disk order, each with its offset, kind and values, in another order
C17_Emit ==
    (sc.pc = "emit" /\ Len(sc'.out) > Len(sc.out)) =>
        LET sorted == sc'.out[Len(sc'.out)].rows
        IN  /\ Len(sorted) = Len(sc.rows)
            /\ \A i \in 1..Len(sorted) : C17_Count(sorted, sorted[i]) = C17_Count(sc.rows, sorted[i])
            /\ \A i, j \in 1..Len(sorted) : i < j => ~NumLess(sorted[j].rpm, sorted[i].rpm)
C17_SortedPermutation == [][C17_Emit]_vars
\* a returned table whose rows were not in ascending rpm order on disk
C17_Witness ==
    /\ sc.pc = "done"
    /\ \E t \in 1..Len(sc.out) : \E i, j \in 1..Len(sc.out[t].rows) :
          i < j /\ sc.out[t].rows[j].offset < sc.out[t].rows[i].offset

----------------------------------------------------------------------------
(* Properties of the parser's helpers *)

\* offset of field k of a format laid out from start
FieldOffset(start, fmt, k) == start + StructSize(SubSeq(fmt, 1, k - 1))
\* the value of field k decoded from the bytes at its offset
FieldAt(d, start, fmt, k) ==
    LET o == FieldOffset(start, fmt, k)
    IN  IF fmt[k] = "f" THEN UnpackF(d, o)
        ELSE IF fmt[k] = "i" THEN UnpackI(d, o)
        ELSE UnpackB(d, o)
DecodeAt(d, start, fmt) == [k \in 1..Len(fmt) |-> FieldAt(d, start, fmt, k)]

\* the matches of sub taken left to right without overlap: a match counts
\* unless a counted match before it covers its first byte
NonOverlapping(d, sub) ==
    LET last0 == Len(d) - Len(sub)
        taken[i \in 0..last0] ==
            /\ MatchAt(d, i, sub)
            /\ \A j \in (i - Len(sub) + 1)..(i - 1) : j >= 0 => ~taken[j]
    IN  {i \in 0..last0 : taken[i]}

\* the matches of catalog entry k that yield a Parameter: every match of an
\* empty format, and the matches whose payload lies inside the buffer
C11_Yielding(d, k) ==
    {i \in NonOverlapping(d, PARAMS[k].sig) :
        \/ PARAMS[k].fmt = <<>>
        \/ i + Len(PARAMS[k].sig) + StructSize(PARAMS[k].fmt) <= Len(d)}
C11_Expected(d, k, i) ==
    [name |-> PARAMS[k].name, offset |-> i, fmt |-> PARAMS[k].fmt,
     values |-> IF PARAMS[k].fmt = <<>> THEN <<>>
                ELSE DecodeAt(d, i + Len(PARAMS[k].sig), PARAMS[k].fmt)]

\* C11: parse_params returns exactly one Parameter per catalog entry and per
\* non-overlapping match of its signature whose payload fits in the buffer
\* (every match when the format is empty), with the match position as offset
\* and the values decoded from the bytes right after the signature, whatever
\* those values are; a match whose payload does not fit yields nothing
C11_OneParameterPerMatch ==
    call.fn = "parse_params" =>
        LET pairs == UNION {{<<k, i>> : i \in C11_Yielding(data, k)} : k \in 1..Len(PARAMS)}
        IN  /\ ~call.ret.raised
            /\ Len(call.ret.params) = Cardinality(pairs)
            /\ {call.ret.params[n] : n \in 1..Len(call.ret.params)}
                   = {C11_Expected(data, x[1], x[2]) : x \in pairs}
\* a buffer with a match of an empty format that yields a Parameter and a
\* match whose payload is cut off by the end of the buffer
C11_Witness ==
    /\ call.fn = "parse_params"
    /\ \E n \in 1..Len(call.ret.params) : call.ret.params[n].fmt = <<>>
    /\ \E k \in 1..Len(PARAMS) :
          NonOverlapping(data, PARAMS[k].sig) \ C11_Yielding(data, k) # {}

\* C12: read_by_fmt returns no partial result: when a field has an unknown tag
\* or the fields do not all fit it returns no values and the caller's offset;
\* otherwise one value per field, decoded in order, and the offset advanced
\* by 4 per f or i and 1 per b
C12_AllOrNothing ==
    call.fn = "read_by_fmt" =>
        LET fmt == call.fmt
            known == \A k \in 1..Len(fmt) : fmt[k] \in {"f", "i", "b"}
            n4 == Cardinality({k \in 1..Len(fmt) : fmt[k] \in {"f", "i"}})
            n1 == Cardinality({k \in 1..Len(fmt) : fmt[k] = "b"})
        IN  IF known /\ call.pos + 4 * n4 + n1 <= Len(data)
            THEN /\ call.ret.ok /\ ~call.ret.raised
                 /\ call.ret.vals = DecodeAt(data, call.pos, fmt)
                 /\ call.ret.pos = call.pos + 4 * n4 + n1
            ELSE /\ ~call.ret.ok /\ ~call.ret.raised
                 /\ call.ret.vals = <<>>
                 /\ call.ret.pos = call.pos
\* a call whose first field fits and whose later field does not
C12_Witness ==
    /\ call.fn = "read_by_fmt" /\ call.fmt = <<"f", "i", "b">>
    /\ call.pos + 4 <= Len(data) /\ call.pos + 9 > Len(data)
    /\ ~call.ret.ok

\* the offsets in the last 64 bytes (the whole buffer when it is no longer)
\* where the code of table entry k occurs
C13_Occurrences(d, k) ==
    LET lo == IF Len(d) > TailLen THEN Len(d) - TailLen ELSE 0
    IN  {i \in lo..(Len(d) - Len(ENGINE_LAYOUT_CODES[k].code)) :
            MatchAt(d, i, ENGINE_LAYOUT_CODES[k].code)}

\* C13: detect_engine_layout looks at the last 64 bytes only, takes the first
\* code of the table that occurs there and returns its label with the
\* absolute offset of its last occurrence; with no code there it returns
\* 'Unknown/Not found' and no offset
C13_FirstCodeLastOccurrence ==
    call.fn = "detect_engine_layout" =>
        LET hit == {k \in 1..Len(ENGINE_LAYOUT_CODES) : C13_Occurrences(data, k) # {}}
        IN  IF hit = {} THEN call.ret = [label |-> "Unknown/Not found", offset |-> <<>>]
            ELSE LET k == CHOOSE k \in hit : \A j \in hit : k <= j
                     occ == C13_Occurrences(data, k)
                 IN  /\ call.ret.label = ENGINE_LAYOUT_CODES[k].label
                     /\ call.ret.offset = <<CHOOSE i \in occ : \A j \in occ : j <= i>>
\* a buffer longer than 64 bytes holding two codes in its tail, the one later
\* in the table first
C13_Witness ==
    /\ call.fn = "detect_engine_layout" /\ Len(data) > TailLen
    /\ Cardinality(C13_Occurrences(data, 2)) = 1
    /\ C13_Occurrences(data, 3) # {}
    /\ \E i \in C13_Occurrences(data, 3) : \A j \in C13_Occurrences(data, 2) : i < j
    /\ call.ret.label = "Flat 4 / 3 Rotor (per SMS)"

\* the positions of the buffer covered by an entity held by the editor
C14_Covered ==
    LET ents == EntitySet(tables, boost, params)
    IN  {i \in 0..(Len(data) - 1) : \E e \in ents : e.offset <= i /\ i < e.offset + e.size}

\* C14: the unknown-byte count is the number of buffer positions covered by no
\* entity range [offset, offset + size), so it lies between 0 and the buffer
\* length; the merged known ranges do not depend on the order the ranges are
\* collected in: they are the maximal runs of covered positions, ascending
C14_UnknownBytesCount ==
    call.fn = "calculate_unknown_bytes" =>
        LET covered == C14_Covered
            known == call.ret.known_ranges
        IN  /\ call.ret.unknown_bytes = Len(data) - Cardinality(covered)
            /\ call.ret.unknown_bytes >= 0 /\ call.ret.unknown_bytes <= Len(data)
            /\ \A n \in 1..Len(known) :
                  /\ known[n][1] < known[n][2]
                  /\ \A i \in known[n][1]..(known[n][2] - 1) : i \in covered
                  /\ (known[n][1] - 1) \notin covered /\ known[n][2] \notin covered
                  /\ n > 1 => known[n - 1][2] < known[n][1]
            /\ \A i \in covered : \E n \in 1..Len(known) : known[n][1] <= i /\ i < known[n][2]
\* ranges collected out of ascending order, one of them inside another, and
\* bytes left uncovered
C14_Witness ==
    /\ call.fn = "calculate_unknown_bytes"
    /\ \E i, j \in 1..Len(call.ret.ranges) :
          /\ i < j /\ call.ret.ranges[j][1] < call.ret.ranges[i][1]
    /\ \E i, j \in 1..Len(call.ret.ranges) :
          /\ call.ret.ranges[i][1] < call.ret.ranges[j][1]
          /\ call.ret.ranges[j][2] < call.ret.ranges[i][2]
    /\ call.ret.unknown_bytes > 0

\* C15: no scanner raises, on buffers cut off inside a signature or a payload
\* too: parse_torque_tables, parse_boost_tables and parse_params return a list
\* and detect_engine_layout returns a label of its table or 'Unknown/Not found'
C15_ScannersReturn ==
    /\ call.fn \in {"parse_torque_tables", "parse_boost_tables"} =>
          /\ ~call.ret.raised
          /\ \A t \in 1..Len(call.ret.tables) : Len(call.ret.tables[t].rows) >= 1
    /\ call.fn = "parse_params" =>
          /\ ~call.ret.raised
          /\ \A n \in 1..Len(call.ret.params) : call.ret.params[n].offset < Len(data)
    /\ call.fn = "detect_engine_layout" =>
          call.ret.label \in {ENGINE_LAYOUT_CODES[k].label : k \in 1..Len(ENGINE_LAYOUT_CODES)}
                                \cup {"Unknown/Not found"}
\* parse_torque_tables called on a buffer that ends inside the payload of an
\* EndVar row following an accepted ZeroRpm row
C15_Witness ==
    /\ call.fn = "parse_torque_tables"
    /\ TorqueRow0(data, 0).ok
    /\ \E n \in 0..(StructSize(ENDVAR_STRUCT) - 1) :
          /\ Len(data) = Len(SIG_0RPM) + StructSize(ROW0_STRUCT) + Len(SIG_ENDVAR) + n
          /\ MatchAt(data, Len(SIG_0RPM) + StructSize(ROW0_STRUCT), SIG_ENDVAR)
    /\ call.ret.tables = <<>>

----------------------------------------------------------------------------
(* Properties of the editing session *)

\* C16: a write to an entity whose offset comes from the scan of the buffer
\* never raises, whatever values the entity holds after editing
C16_WritesNeverFail == last.kind # "none" => last.ok

\* the fields of a held entity in the order the scanner fills them
RowValues(row, boosted) ==
    IF boosted THEN <<row.rpm, row.t0, row.t25, row.t50, row.t75, row.t100>>
    ELSE <<row.rpm, row.compression, row.torque>>

\* == on two field values: the same object, or two numbers that compare equal
SameValue(x, y) ==
    \/ x = y
    \/ x.t \in {"f", "i"} /\ y.t \in {"f", "i"} /\ NumEq(x, y)
SameValues(u, v) == Len(u) = Len(v) /\ \A i \in 1..Len(u) : SameValue(u[i], v[i])

\* two lists of tables hold the same tables, rows and values
SameTables(a, b, boosted) ==
    /\ Len(a) = Len(b)
    /\ \A t \in 1..Len(a) :
          /\ a[t].offset = b[t].offset
          /\ Len(a[t].rows) = Len(b[t].rows)
          /\ \A r \in 1..Len(a[t].rows) :
                /\ a[t].rows[r].kind = b[t].rows[r].kind
                /\ a[t].rows[r].offset = b[t].rows[r].offset
                /\ SameValues(RowValues(a[t].rows[r], boosted), RowValues(b[t].rows[r], boosted))
SameParams(a, b) ==
    /\ Len(a) = Len(b)
    /\ \A k \in 1..Len(a) :
          /\ a[k].name = b[k].name /\ a[k].offset = b[k].offset /\ a[k].fmt = b[k].fmt
          /\ SameValues(a[k].values, b[k].values)

\* C18 (as stated): after every write of a session the torque tables, boost
\* tables and parameters the application holds equal what parse_torque_tables,
\* parse_boost_tables and parse_params return on the current buffer.
C18_HeldIsRescan ==
    nwrites > 0 =>
        /\ SameTables(tables, parse_torque_tables(data), FALSE)
        /\ SameTables(boost, parse_boost_tables(data), TRUE)
        /\ SameParams(params, parse_params(data))

\* the payload format of a row kind, and the fields of the decoded payload that
\* are the row's values (a ZeroRpm payload starts with a byte that is no value)
RowFormat(kind) ==
    IF kind = "0rpm" THEN ROW0_STRUCT
    ELSE IF kind = "row_i" THEN ROWI_STRUCT
    ELSE IF kind = "row_f" THEN ROWF_STRUCT
    ELSE IF kind = "endvar" THEN ENDVAR_STRUCT
    ELSE IF kind = "boost_0rpm" THEN BOOST0_STRUCT
    ELSE BOOSTI_STRUCT
DecodedValues(kind, vals) ==
    IF kind \in {"0rpm", "boost_0rpm"} THEN Tail(vals)
    ELSE IF kind = "endvar" THEN SubSeq(vals, 1, 2)
    ELSE vals
\* the values of a held row that its payload stores
StoredValues(row, boosted) ==
    IF row.kind = "0rpm" THEN <<row.compression, row.torque>>
    ELSE IF row.kind = "endvar" THEN <<row.rpm, row.compression>>
    ELSE IF row.kind = "boost_0rpm" THEN Tail(RowValues(row, TRUE))
    ELSE RowValues(row, boosted)
\* decoding the buffer at the row's payload yields the row's values
RowReadsBack(d, row, siglen, boosted) ==
    LET u == unpack_from(d, row.offset + siglen, RowFormat(row.kind))
    IN  /\ ~u.raised
        /\ SameValues(DecodedValues(row.kind, u.vals), StoredValues(row, boosted))

\* C19 (as stated): after write_torque_row, write_boost_row or write_param on
\* an entity of the scan with edited values, decoding the buffer at the
\* entity's offset plus its signature length with the format of its kind
\* yields the entity's current values.
C19_ReadYourWrites ==
    /\ last.kind = "torque" =>
          \A t \in 1..Len(tables) : \A r \in 1..Len(tables[t].rows) :
              (tables[t].rows[r].offset = last.offset /\ tables[t].rows[r].kind = last.rowkind)
                  => RowReadsBack(data, tables[t].rows[r], last.siglen, FALSE)
    /\ last.kind = "boost" =>
          \A t \in 1..Len(boost) : \A r \in 1..Len(boost[t].rows) :
              (boost[t].rows[r].offset = last.offset /\ boost[t].rows[r].kind = last.rowkind)
                  => RowReadsBack(data, boost[t].rows[r], last.siglen, TRUE)
    /\ last.kind = "param" =>
          \A k \in 1..Len(params) :
              (params[k].offset = last.offset /\ params[k].name = last.rowkind)
                  => LET u == unpack_from(data, last.offset + last.siglen, params[k].fmt)
                     IN  ~u.raised /\ SameValues(u.vals, params[k].values)

\* offset of the torque field of a row that stores one
TorqueFieldAt(row) ==
    row.offset + Len(TorqueSig(row.kind)) + (IF row.kind = "0rpm" THEN 5 ELSE 8)
\* the offsets of the torque fields of the rows that have a torque
TorqueFieldBytes(tabs) ==
    UNION { UNION { IF tabs[t].rows[r].torque # None /\ tabs[t].rows[r].kind # "endvar"
                    THEN TorqueFieldAt(tabs[t].rows[r]) .. (TorqueFieldAt(tabs[t].rows[r]) + 3)
                    ELSE {} : r \in 1..Len(tabs[t].rows) } : t \in 1..Len(tabs) }

\* the step scaled the held tables by 2.0 ** k and nothing else
ScaledBy(k) ==
    /\ Len(tables') = Len(tables) /\ Len(data') = Len(data)
    /\ \A t \in 1..Len(tables) :
          /\ tables'[t].offset = tables[t].offset
          /\ Len(tables'[t].rows) = Len(tables[t].rows)
          /\ \A r \in 1..Len(tables[t].rows) :
                LET old == tables[t].rows[r]
                    new == tables'[t].rows[r]
                IN  /\ new = [old EXCEPT !.torque = IF @ = None THEN None ELSE TimesFactor(@, k)]
                    /\ (old.torque # None /\ old.kind # "endvar")
                          => SameValue(UnpackF(data', TorqueFieldAt(old)), new.torque)
    /\ \A i \in 0..(Len(data) - 1) :
          i \notin TorqueFieldBytes(tables) => data'[i + 1] = data[i + 1]

\* C20 (as stated): a scale_torque_tables step multiplies by the factor the
\* torque of every row that has one, in the row object and in the buffer at
\* the row's payload, and changes nothing else: rows without torque and their
\* bytes, the rpm and compression fields of the scaled rows and every byte
\* outside the scaled rows' payloads stay as they were.
C20_ScaleOnlyTorque ==
    [][last'.kind = "scale" => \E percent \in ScalePercents : ScaledBy(FactorExp(percent))]_vars

\* C21: in every state of an editing session a torque row has no torque
\* exactly when it is an EndVar row
C21_TorqueAbsentOnlyEndVar ==
    phase = "session" =>
        \A t \in 1..Len(tables) : \A r \in 1..Len(tables[t].rows) :
            (tables[t].rows[r].torque = None) <=> (tables[t].rows[r].kind = "endvar")

----------------------------------------------------------------------------
(* Properties of a scan run *)

\* the run is over: the generator has returned, or the scanner has returned or raised
C22_Done ==
    \/ phase = "find" /\ fa.done
    \/ phase = "scan" /\ sc.pc \in {"done", "raised"}

\* the offsets yielded so far do not overlap, and inside the row loop the
\* cursor is never past the end of the buffer
C22_Bounded ==
    /\ phase = "find" => Len(fa.out) * Len(fa.sub) <= Len(data)
    /\ phase = "scan" /\ sc.pc \in {"rows", "emit"} => sc.q <= Len(data)

\* a pass of the row loop that accepts a row moves the cursor forward, and a
\* resumption of the generator that yields moves the start of the search forward
C22_Advance ==
    /\ phase = "scan" /\ sc.pc = "rows" /\ Len(sc'.rows) > Len(sc.rows) => sc'.q > sc.q
    /\ phase = "find" /\ Len(fa'.out) > Len(fa.out) => fa'.start > fa.start

\* C22: every scan terminates: find_all with a non-empty needle returns after
\* finitely many offsets, the row cursor of parse_torque_tables and
\* parse_boost_tables strictly advances on every accepted row, and the row
\* loop ends at or before the end of the buffer
C22_ScansTerminate == <>C22_Done /\ []C22_Bounded /\ [][C22_Advance]_vars

\* a torque scan that has returned a table of three rows whose row loop ran to
\* the very end of the buffer
C22_Witness ==
    /\ phase = "scan" /\ sc.which = "torque" /\ sc.pc = "done"
    /\ sc.q = Len(data)
    /\ \E t \in 1..Len(sc.out) : Len(sc.out[t].rows) >= 3

\* the rows of parse_torque_tables are range-checked like this
C23_Plausible(v) ==
    InRange(v[1], 0, 25000) /\ InRange(v[2], -300, 300) /\ InRange(v[3], -4000, 10000)

\* the cursor q holds a RowInt or RowFloat row that is out of range
C23_OutOfRange(q) ==
    \/ /\ MatchAt(data, q, SIG_ROW_I)
       /\ q + Len(SIG_ROW_I) + StructSize(ROWI_STRUCT) <= Len(data)
       /\ ~C23_Plausible(DecodeAt(data, q + Len(SIG_ROW_I), ROWI_STRUCT))
    \/ /\ MatchAt(data, q, SIG_ROW_F)
       /\ q + Len(SIG_ROW_F) + StructSize(ROWF_STRUCT) <= Len(data)
       /\ ~C23_Plausible(DecodeAt(data, q + Len(SIG_ROW_F), ROWF_STRUCT))

\* the cursor q holds a row signature whose payload the buffer cuts off
C23_CutOff(q) ==
    \/ MatchAt(data, q, SIG_ROW_I) /\ q + Len(SIG_ROW_I) + StructSize(ROWI_STRUCT) > Len(data)
    \/ MatchAt(data, q, SIG_ROW_F) /\ q + Len(SIG_ROW_F) + StructSize(ROWF_STRUCT) > Len(data)
    \/ MatchAt(data, q, SIG_ENDVAR) /\ q + Len(SIG_ENDVAR) + StructSize(ENDVAR_STRUCT) > Len(data)

\* the cursor q holds no known row signature
C23_NoRowSig(q) ==
    \A sig \in {SIG_0RPM, SIG_ROW_I, SIG_ROW_F, SIG_ENDVAR} : ~MatchAt(data, q, sig)

\* the ZeroRpm candidate at off0 is too short or out of range
C23_BadCandidate(off0) ==
    LET p == off0 + Len(SIG_0RPM)
    IN  \/ p + StructSize(ROW0_STRUCT) > Len(data)
        \/ LET v == DecodeAt(data, p, ROW0_STRUCT)
           IN  ~(InRange(v[2], -300, 300) /\ InRange(v[3], -4000, 10000))

\* the table t is made of exactly these rows
C23_TableOf(t, off0, rows) ==
    /\ t.offset = off0
    /\ Len(t.rows) = Len(rows)
    /\ {t.rows[k] : k \in 1..Len(t.rows)} = {rows[k] : k \in 1..Len(rows)}

C23_Step ==
    phase = "scan" /\ sc.which = "torque" =>
        \* the row loop stops there with the rows it has
        /\ sc.pc = "rows" /\ sc.q < Len(data)
              /\ (C23_OutOfRange(sc.q) \/ C23_CutOff(sc.q) \/ C23_NoRowSig(sc.q))
           => sc'.pc = "emit" /\ sc'.rows = sc.rows /\ sc'.out = sc.out /\ sc'.offs = sc.offs
        \* the table is returned with exactly these rows when it has at least 2
        /\ sc.pc = "emit"
           => /\ sc'.pc = "next" /\ sc'.offs = sc.offs
              /\ IF Len(sc.rows) >= 2
                 THEN /\ Len(sc'.out) = Len(sc.out) + 1
                      /\ C23_TableOf(sc'.out[Len(sc'.out)], sc.off0, sc.rows)
                 ELSE sc'.out = sc.out
        \* a table that was returned is never touched again
        /\ \A k \in 1..Len(sc.out) : Len(sc'.out) >= k /\ sc'.out[k] = sc.out[k]
        \* the next candidate is the next ZeroRpm match
        /\ sc.pc = "next" /\ sc'.off0 # sc.off0
           => /\ sc'.off0 \in NonOverlapping(data, SIG_0RPM)
              /\ \A i \in NonOverlapping(data, SIG_0RPM) : i > sc.off0 => sc'.off0 <= i
              /\ sc'.off0 > sc.off0
        \* a bad candidate is skipped
        /\ sc.pc = "next" /\ sc'.off0 # sc.off0 /\ C23_BadCandidate(sc'.off0)
           => sc'.pc = "next" /\ sc'.out = sc.out

\* C23: in parse_torque_tables an out-of-range RowInt/RowFloat row, a row
\* signature whose payload the buffer cuts off, or a cursor holding no known
\* row signature ends the table: the table keeps exactly the rows accepted
\* before (and is returned when it has at least 2), no row is added to it
\* later, the scan goes on with the next ZeroRpm match, and a ZeroRpm
\* candidate that is too short or out of range is skipped
C23_StopEndsTable == [][C23_Step]_vars

\* a table was returned that an out-of-range or cut-off row ended after its
\* second row
C23_Witness ==
    /\ phase = "scan" /\ sc.which = "torque" /\ sc.pc = "done"
    /\ Len(sc.out) >= 1
    /\ \E t \in 1..Len(sc.out) :
          LET q == sc.out[t].offset + Len(SIG_0RPM) + StructSize(ROW0_STRUCT)
                       + Len(SIG_ROW_I) + StructSize(ROWI_STRUCT)
          IN  /\ Len(sc.out[t].rows) = 2
              /\ q < Len(data)
              /\ (C23_OutOfRange(q) \/ C23_CutOff(q))

\* the places of the ZeroRpm rows in the row list of table t
C24_ZeroRows(t) == {k \in 1..Len(t.rows) : t.rows[k].kind = "0rpm"}

\* C24 as stated: in every table returned by parse_torque_tables the first
\* row of the sorted row list is the ZeroRpm row, with rpm 0 and the table's
\* offset, and it is the only ZeroRpm row
C24_ZeroRpmFirst ==
    phase = "scan" /\ sc.which = "torque" =>
        \A i \in 1..Len(sc.out) :
            LET t == sc.out[i]
            IN  /\ C24_ZeroRows(t) = {1}
                /\ NumEq(t.rows[1].rpm, I(0))
                /\ t.rows[1].offset = t.offset

\* C24 amended: every table returned by parse_torque_tables holds exactly one
\* ZeroRpm row, with rpm 0 and the table's offset; it is the first row of the
\* sorted row list unless the table's EndVar row has a negative rpm, and then
\* that EndVar row alone comes before it
C24_ZeroRpmFirstButEndVar ==
    phase = "scan" /\ sc.which = "torque" =>
        \A i \in 1..Len(sc.out) :
            LET t == sc.out[i]
            IN  \E z \in 1..Len(t.rows) :
                    /\ C24_ZeroRows(t) = {z}
                    /\ NumEq(t.rows[z].rpm, I(0))
                    /\ t.rows[z].offset = t.offset
                    /\ z <= 2
                    /\ \A k \in 1..(z - 1) :
                          t.rows[k].kind = "endvar" /\ NumLess(t.rows[k].rpm, I(0))

\* a returned table whose first row is an EndVar row of negative rpm and whose
\* ZeroRpm row is followed by a RowInt row of rpm 0
C24_Witness ==
    /\ phase = "scan" /\ sc.which = "torque" /\ sc.pc = "done"
    /\ \E i \in 1..Len(sc.out) :
          /\ Len(sc.out[i].rows) = 3
          /\ sc.out[i].rows[1].kind = "endvar"
          /\ sc.out[i].rows[2].kind = "0rpm"
          /\ sc.out[i].rows[3].kind = "row_i" /\ NumEq(sc.out[i].rows[3].rpm, I(0))

----------------------------------------------------------------------------
(* Properties of the entities a scan returns *)

\* the row lies in the buffer behind the signature of its kind, and its size
\* is that signature and the payload it was read with
C25_RowFramed(row, boosted) ==
    LET sig == IF boosted THEN BoostSig(row.kind) ELSE TorqueSig(row.kind)
        size == IF boosted THEN BoostRowSize(row) ELSE TorqueRowSize(row)
    IN  /\ MatchAt(data, row.offset, sig)
        /\ size = Len(sig) + StructSize(RowFormat(row.kind))
        /\ row.offset + size <= Len(data)

\* the parameter lies in the buffer behind the signature of the catalog entry
\* it was matched with: the entry of its name and format
C25_ParamFramed(prm) ==
    \E k \in 1..Len(PARAMS) :
        /\ PARAMS[k].name = prm.name /\ PARAMS[k].fmt = prm.fmt
        /\ MatchAt(data, prm.offset, PARAMS[k].sig)
        /\ ParameterSize(prm) = Len(PARAMS[k].sig) + StructSize(prm.fmt)
        /\ prm.offset + ParameterSize(prm) <= Len(data)

\* C25: for every torque row, boost row and parameter a scanner returns, the
\* buffer holds the signature of its kind or matched catalog entry at
\* [offset, offset + signature length), size is that signature length plus the
\* width of the payload format it was read with, and offset + size is within
\* the buffer
C25_EntitiesFramed ==
    /\ call.fn = "parse_torque_tables" =>
          \A t \in 1..Len(call.ret.tables) : \A r \in 1..Len(call.ret.tables[t].rows) :
              C25_RowFramed(call.ret.tables[t].rows[r], FALSE)
    /\ call.fn = "parse_boost_tables" =>
          \A t \in 1..Len(call.ret.tables) : \A r \in 1..Len(call.ret.tables[t].rows) :
              C25_RowFramed(call.ret.tables[t].rows[r], TRUE)
    /\ call.fn = "parse_params" =>
          \A n \in 1..Len(call.ret.params) : C25_ParamFramed(call.ret.params[n])

\* parse_torque_tables has returned a table whose EndVar row ends with the buffer
C25_Witness ==
    /\ call.fn = "parse_torque_tables"
    /\ \E t \in 1..Len(call.ret.tables) : \E r \in 1..Len(call.ret.tables[t].rows) :
          /\ call.ret.tables[t].rows[r].kind = "endvar"
          /\ call.ret.tables[t].rows[r].offset + Len(SIG_ENDVAR) + StructSize(ENDVAR_STRUCT)
                 = Len(data)

\* the rows of table t lie one behind the other from t.offset on, and the
\* size of the table is the length of that stretch
C26_Contiguous(t, boosted) ==
    LET rows == {t.rows[k] : k \in 1..Len(t.rows)}
        size(r) == IF boosted THEN BoostRowSize(r) ELSE TorqueRowSize(r)
        tail == CHOOSE r \in rows : \A o \in rows : o.offset <= r.offset
    IN  /\ Cardinality({r.offset : r \in rows}) = Len(t.rows)
        /\ \E r \in rows : r.offset = t.offset
        /\ \A r \in rows : r.offset >= t.offset
        /\ \A r \in rows \ {tail} : \E o \in rows : o.offset = r.offset + size(r)
        /\ TableSize(t, boosted) = tail.offset + size(tail) - t.offset

\* C26: in every table returned by parse_torque_tables or parse_boost_tables
\* the rows, in offset order, are contiguous: the first starts at table.offset,
\* each next one starts where the one before ends, and table.size is the
\* number of bytes from table.offset to the end of the last row
C26_RowsContiguous ==
    phase = "scan" =>
        \A i \in 1..Len(sc.out) : C26_Contiguous(sc.out[i], sc.which = "boost")

\* a returned table of three rows whose sorted order is not their offset order
C26_Witness ==
    /\ phase = "scan" /\ sc.pc = "done"
    /\ \E i \in 1..Len(sc.out) :
          /\ Len(sc.out[i].rows) = 3
          /\ sc.out[i].rows[3].offset < sc.out[i].rows[2].offset

\* the bytes of table t: [offset, offset + size)
C27_Range(t, boosted) == t.offset..(t.offset + TableSize(t, boosted) - 1)

\* C27: two different tables returned by one call of parse_torque_tables, or
\* of parse_boost_tables, never share a byte, even when a ZeroRpm signature
\* occurs inside the payload of a row of an earlier table
C27_TablesDisjoint ==
    phase = "scan" =>
        \A i, j \in 1..Len(sc.out) :
            i # j => C27_Range(sc.out[i], sc.which = "boost")
                         \cap C27_Range(sc.out[j], sc.which = "boost") = {}

\* C28: write_param is all-or-nothing: when the write of a parameter fails
\* (a value that its field cannot encode, or fewer values than fields), the
\* buffer is byte for byte what it was before the call
C28_WriteParamAllOrNothing ==
    (phase = "session" /\ last.kind = "param" /\ ~last.ok) => data = pre

----------------------------------------------------------------------------
(* The viewer of src/EDF-File-Editor.py: open_file, the parameter dialog   *)
(* with _apply_parameter_edit, scale_torque, the inline hex edit and       *)
(* save_modified_edf.  ed.modified is self.modified; ed.bytearray tells    *)
(* whether self.data is a bytearray (an edit made it one) or the bytes     *)
(* open_file read; ed.edited records that an edit handler has written      *)
(* to the buffer of the file now loaded; ed.op, ed.ok, ed.item and ed.vals *)
(* describe the last operation.                                            *)

MaxEdits == 2           \* edits per run of the viewer
MaxEdChunks == 1        \* chunks per file the viewer opens

\* chunk numbers the opened files are made of: LaunchRPMLogic, a torque
\* table, the int variants of IdleRPMLogic and RevLimitRange
EdLib == {13, 16, 30, 31}
EdFiles == Buffers(EdLib, MaxEdChunks) \ {<<>>}

\* offsets clicked and bytes typed in the hex view
HexOffsets == {0, 6, 10}
HexValues == {0, 36}

\* open_file / _refresh_tree_display: the format kept with a tree item is the
\* format of the first catalog entry that carries the parameter's name
TreeItemFmt(name) ==
    LET k == CatalogIndexByName(name)
    IN  IF k = 0 THEN <<>> ELSE EditorPARAMS[k].fmt

\* the zip loop of _apply_parameter_edit from field i on: pack_into for a
\* float or an int, an item assignment for a byte
RECURSIVE ApplyFields(_, _, _, _, _)
ApplyFields(d, write_pos, new_vals, fmt, i) ==
    IF i > Len(new_vals) \/ i > Len(fmt) THEN [d |-> d, ok |-> TRUE]
    ELSE IF fmt[i] = "b"
    THEN IF write_pos >= Len(d) THEN [d |-> d, ok |-> FALSE]
         ELSE ApplyFields(PackInto(d, write_pos, <<new_vals[i].v>>), write_pos + 1,
                          new_vals, fmt, i + 1)
    ELSE LET r == PackIntoStruct(d, write_pos, <<fmt[i]>>, <<new_vals[i]>>)
         IN  IF ~r.ok THEN r
             ELSE ApplyFields(r.d, write_pos + 4, new_vals, fmt, i + 1)

\* _apply_parameter_edit: the signature length is that of the first catalog
\* entry with the name, the values are written after it
apply_parameter_edit(d, name, pos, new_vals, fmt) ==
    LET k == CatalogIndexByName(name)
        sig_len == IF k = 0 THEN 0 ELSE Len(EditorPARAMS[k].sig)
    IN  ApplyFields(d, pos + sig_len, new_vals, fmt, 1)

\* the loops of scale_torque from row r of table t on, factor = 2.0 ** k: the
\* scaled row is packed at once; a table's rows are replaced when its loop ends
RECURSIVE EdScaleFrom(_, _, _, _, _, _)
EdScaleFrom(d, tabs, t, r, k, new_rows) ==
    IF t > Len(tabs) THEN [d |-> d, tables |-> tabs, ok |-> TRUE]
    ELSE IF r > Len(tabs[t].rows)
    THEN EdScaleFrom(d, [tabs EXCEPT ![t].rows = new_rows], t + 1, 1, k, <<>>)
    ELSE IF tabs[t].rows[r].torque = None
    THEN EdScaleFrom(d, tabs, t, r + 1, k, Append(new_rows, tabs[t].rows[r]))
    ELSE Bind([tabs[t].rows[r] EXCEPT !.torque = TimesFactor(@, k)],
              LAMBDA row :
                  Bind(write_torque_row(d, row),
                       LAMBDA w :
                           IF ~w.ok THEN [d |-> w.d, tables |-> tabs, ok |-> FALSE]
                           ELSE EdScaleFrom(w.d, tabs, t, r + 1, k, Append(new_rows, row))))

InitEd ==
    /\ data = <<>> /\ orig = <<>> /\ pre = <<>>
    /\ tables = <<>> /\ boost = <<>> /\ params = <<>>
    /\ last = NoWrite /\ nwrites = 0
    /\ phase = "editor" /\ ledger = <<>> /\ rescan = NoScan /\ sc = ScIdle /\ fa = FaIdle
    /\ call = NoCall /\ ed = EdIdle

\* open_file: the file is read and scanned; self.modified is not assigned
OpenFile ==
    /\ phase = "editor"
    /\ \E f \in EdFiles :
          /\ data' = f /\ orig' = f /\ pre' = f
          /\ tables' = parse_torque_tables(f)
          /\ boost' = parse_boost_tables(f)
          /\ params' = EditorParams(f)
    /\ ed' = [ed EXCEPT !.bytearray = FALSE, !.edited = FALSE, !.op = "open", !.ok = TRUE,
                        !.item = <<>>, !.vals = <<>>]
    /\ UNCHANGED <<last, nwrites, phase, ledger, rescan, sc, fa, call>>

\* on_tree_double_click on a parameter item, Save in the dialog, then
\* _apply_parameter_edit: a text is converted by the item's format (a byte
\* outside 0..255 keeps the dialog open); a pack_into that raises leaves the
\* flag as line 978 set it and the display as it was
ApplyParameterEdit ==
    /\ phase = "editor" /\ nwrites < MaxEdits
    /\ \E n \in 1..Len(params) : \E c \in ParamChoices :
          \E fmt \in {TreeItemFmt(params[n].name)} :
             \E new_vals \in {[i \in 1..(IF Len(fmt) < Len(params[n].values) THEN Len(fmt)
                                         ELSE Len(params[n].values)) |->
                                  ParamEditValue(fmt[i], i, c)]} :
                /\ \A i \in 1..Len(new_vals) :
                       fmt[i] = "b" => new_vals[i].v >= 0 /\ new_vals[i].v <= 255
                /\ \E w \in {apply_parameter_edit(data, params[n].name, params[n].offset,
                                                  new_vals, fmt)} :
                      /\ data' = w.d
                      /\ params' = IF w.ok THEN EditorParams(w.d) ELSE params
                      /\ ed' = [modified |-> (w.ok \/ ~ed.bytearray \/ ed.modified),
                                bytearray |-> TRUE, edited |-> TRUE, op |-> "param",
                                ok |-> w.ok, item |-> params[n], vals |-> new_vals]
    /\ pre' = data
    /\ nwrites' = nwrites + 1
    /\ UNCHANGED <<orig, tables, boost, last, phase, ledger, rescan, sc, fa, call>>

\* scale_torque: nothing without torque tables; the flag is set before the
\* rows are written
EdScaleTorque ==
    /\ phase = "editor" /\ nwrites < MaxEdits
    /\ tables # <<>>
    /\ \E percent \in ScalePercents :
          \E s \in {EdScaleFrom(data, tables, 1, 1, FactorExp(percent), <<>>)} :
              /\ data' = s.d
              /\ tables' = s.tables
              /\ ed' = [modified |-> TRUE, bytearray |-> TRUE, edited |-> TRUE, op |-> "scale",
                        ok |-> s.ok, item |-> <<>>, vals |-> <<>>]
    /\ pre' = data
    /\ nwrites' = nwrites + 1
    /\ UNCHANGED <<orig, boost, params, last, phase, ledger, rescan, sc, fa, call>>

\* on_hex_click, then save_edit of edit_hex_byte_inline: one byte is replaced
\* and the three scanners run again
HexByteEdit ==
    /\ phase = "editor" /\ nwrites < MaxEdits
    /\ data # <<>>
    /\ \E offset \in HexOffsets : \E new_value \in HexValues :
          /\ offset < Len(data)
          /\ \E d \in {[data EXCEPT ![offset + 1] = new_value]} :
                /\ data' = d
                /\ tables' = parse_torque_tables(d)
                /\ boost' = parse_boost_tables(d)
                /\ params' = EditorParams(d)
    /\ ed' = [modified |-> TRUE, bytearray |-> TRUE, edited |-> TRUE, op |-> "hex",
              ok |-> TRUE, item |-> <<>>, vals |-> <<>>]
    /\ pre' = data
    /\ nwrites' = nwrites + 1
    /\ UNCHANGED <<orig, last, phase, ledger, rescan, sc, fa, call>>

\* save_modified_edf: refused (ok FALSE) when self.modified is false, else
\* self.data is written to the chosen path
SaveModifiedEdf ==
    /\ phase = "editor"
    /\ ed' = [ed EXCEPT !.op = "save", !.ok = ed.modified]
    /\ UNCHANGED <<data, orig, tables, boost, params, pre, last, nwrites, phase, ledger,
                   rescan, sc, fa, call>>

NextEd == OpenFile \/ ApplyParameterEdit \/ EdScaleTorque \/ HexByteEdit \/ SaveModifiedEdf

SpecEd == InitEd /\ [][NextEd]_vars

----------------------------------------------------------------------------
(* Properties of the viewer of src/EDF-File-Editor.py *)

\* the payload of the parameter the last dialog edited: the bytes after its
\* signature, as wide as the format of the catalog entry its signature matched
C29_Payload ==
    LET start == ed.item.offset + (ParameterSize(ed.item) - StructSize(ed.item.fmt))
    IN  start..(start + StructSize(ed.item.fmt) - 1)

\* C29: a parameter edit of the viewer writes each field in the primitive type
\* of the catalog entry whose signature was matched at the parameter's offset
\* (read back in that type, every field gives the value typed), also for the
\* int variants of two-variant names, and changes no byte outside the payload
C29_WritesMatchedType ==
    (phase = "editor" /\ ed.op = "param") =>
        /\ ed.ok =>
              \A i \in 1..Len(ed.item.fmt) :
                  /\ i <= Len(ed.vals)
                  /\ SameValue(FieldAt(data, ed.item.offset + (ParameterSize(ed.item)
                                           - StructSize(ed.item.fmt)), ed.item.fmt, i),
                               ed.vals[i])
        /\ Len(data) = Len(pre)
        /\ \A j \in 0..(Len(data) - 1) : j \notin C29_Payload => data[j + 1] = pre[j + 1]

\* C30: over any sequence of open_file, parameter edits, scale_torque, hex
\* byte edits and save_modified_edf, the modified flag is true exactly when an
\* edit has been applied to the loaded file since it was opened, so a save is
\* refused whenever the buffer is still the file as opened
C30_ModifiedIffEdited ==
    phase = "editor" =>
        /\ ed.modified <=> ed.edited
        /\ (ed.op = "save" /\ ~ed.edited) => ~ed.ok
====
